---- MODULE Spec2Model ----
(***************************************************************************)
(* State-machine model of the wagtail-lms runtime subsystem:               *)
(*   - the SCORM RTE endpoint (GetValue / SetValue / Terminate) with its   *)
(*     retry-on-lock decorator and its transaction,                        *)
(*   - enrolment and player access,                                        *)
(*   - the H5P xAPI ingestion and the completion propagation               *)
(*     activity -> lesson -> course -> enrollment,                         *)
(*   - the ZIP extraction of SCORM / H5P packages.                         *)
(* The database is a committed store `db` plus the working copy `work` of  *)
(* the one transaction that holds the write lock.                          *)
(***************************************************************************)
EXTENDS Integers, Sequences, FiniteSets, TLC

VARIABLES
    db,        \* committed database rows
    work,      \* working copy of the transaction holding the write lock
    lock,      \* 0, or the request that holds the database write lock
    proc,      \* per request slot: position and local variables
    now,       \* logical clock read by timezone.now()
    calls,     \* number of requests started so far
    faults,    \* number of non-contention errors raised so far
    lastSet,   \* history: per (attempt, key) the value of the last committed SetValue
    auto_enroll, \* conf.WAGTAIL_LMS_AUTO_ENROLL
    fs,        \* the package extraction in progress and the storage it writes to
    packages        \* the content packages: rows, stored files, transaction, on_commit list

vars == <<db, work, lock, proc, now, calls, faults, lastSet, auto_enroll, fs, packages>>

-----------------------------------------------------------------------------
(* Bounds of the model *)

MaxCalls == 3

\* RTE requests are started only among the first MaxRequests calls
MaxRequests == 2
MaxFaults == 1
MaxAttempts == 2

-----------------------------------------------------------------------------
(* Program constants *)

max_attempts == 5

-----------------------------------------------------------------------------
(* Static site content *)

Procs == {1, 2}
Users == {"u1", "u2"}
Courses == {"c1", "c2", "c3"}
NoPackage == "none"
AttemptIds == 1..MaxAttempts
Activities == {"a1", "a2", "a3"}
Lessons == {"l1", "l2", "l3", "l4", "l5", "l6", "l7"}

\* CoursePage.scorm_package: c1 is a SCORM course, c2 and c3 have no package.
CoursePackage(c) == IF c = "c1" THEN "p1" ELSE NoPackage

\* SCORMPackage.get_launch_url() is non-empty for an extracted package.
HasLaunchUrl(pkg) == pkg = "p1"

\* LessonPage.get_parent(): l1..l4 are children of course c2, l5 of course c1,
\* l6 of a page that is no CoursePage, l7 is the only lesson of course c3.
LessonParent(l) == CASE l \in {"l1", "l2", "l3", "l4"} -> "c2"
                     [] l = "l5" -> "c1"
                     [] l = "l7" -> "c3"
                     [] OTHER -> "home"

\* LessonPage.live: l4 is a draft.
Live(l) == l # "l4"

\* LessonPage.body: the h5p_activity blocks of each lesson (l3 has none).
LessonBody(l) == CASE l = "l1" -> {"a1"}
                   [] l = "l2" -> {"a2"}
                   [] l = "l3" -> {}
                   [] l = "l4" -> {"a3"}
                   [] l = "l5" -> {"a1", "a3"}
                   [] OTHER -> {"a2"}

\* The order in which a LessonPage queryset yields the lessons.
LessonOrder == <<"l1", "l2", "l3", "l4", "l5", "l6", "l7">>

-----------------------------------------------------------------------------
(* cmi keys and values *)

K_STATUS == "cmi.core.lesson_status"
K_LOCATION == "cmi.core.lesson_location"
K_SUSPEND == "cmi.suspend_data"
K_RAW == "cmi.core.score.raw"
K_MAX == "cmi.core.score.max"
K_MIN == "cmi.core.score.min"
K_OTHER == "cmi.interactions.0.id"
K_STUDENT_ID == "cmi.core.student_id"
K_CREDIT == "cmi.core.credit"

Keys == {K_STATUS, K_LOCATION, K_SUSPEND, K_RAW, K_MAX, K_MIN, K_OTHER,
         K_STUDENT_ID, K_CREDIT}
SetKeys == {K_STATUS, K_LOCATION, K_RAW, K_OTHER}
Values == {"completed", "passed", "85", "page5"}

\* The (key, value) pairs the SetValue requests of the model carry: a
\* completing and a non-completing status, a location, a score that parses and
\* one that does not, and an unpromoted key with two values
SetInputs ==
    {<<K_STATUS, "completed">>, <<K_STATUS, "page5">>, <<K_LOCATION, "page5">>,
     <<K_RAW, "85">>, <<K_RAW, "page5">>, <<K_OTHER, "85">>, <<K_OTHER, "page5">>}

\* A JSON null among the parameters of a request: Python None
JsonNull == "json:null"

\* Python float(value): <<n>> for a parsable string, <<>> when no number
\* comes out (ValueError, or TypeError: see float_type_error).
float(v) == IF v = "85" THEN <<85>> ELSE <<>>

\* Python float(value) raises TypeError, not ValueError, for a value that is
\* neither a string nor a number
float_type_error(v) == v = JsonNull

\* Python str(float): "85.0" for 85.0.
strfloat(f) == IF f = <<>> THEN "" ELSE IF f = <<85>> THEN "85.0" ELSE "?"

-----------------------------------------------------------------------------
(* Rows *)

\* SCORMAttempt row as created by the player view (defaults of the model
\* fields, completion_status overridden to "incomplete").
NewAttempt(u, pkg) ==
    [user |-> u, scorm_package |-> pkg,
     completion_status |-> "incomplete", success_status |-> "unknown",
     score_raw |-> <<>>, score_max |-> <<>>, score_min |-> <<>>,
     location |-> "", suspend_data |-> ""]

NoAttempt == NewAttempt("", NoPackage)

\* H5PAttempt row with the defaults of the model fields; exists = FALSE
\* stands for "no row for this (user, activity)".
NewH5PAttempt ==
    [exists |-> TRUE, completion_status |-> "not_attempted",
     success_status |-> "unknown", score_raw |-> <<>>, score_max |-> <<>>,
     score_min |-> <<>>, score_scaled |-> <<>>]

NoH5PAttempt == [NewH5PAttempt EXCEPT !.exists = FALSE]

\* H5PContentUserData: the data types and sub-content ids of the model
DataTypes == {"state"}
SubContentIds == {0, 1}

EmptyDb ==
    [enroll |-> [u \in Users |-> [c \in Courses |-> -1]],
     attempts |-> <<>>,
     data |-> [a \in AttemptIds |-> [k \in Keys |-> <<>>]],
     h5p |-> [u \in Users |-> [a \in Activities |-> NoH5PAttempt]],
     stmts |-> [u \in Users |-> [a \in Activities |-> 0]],
     udata |-> [u \in Users |-> [a \in Activities |->
                  [dt \in DataTypes |-> [sid \in SubContentIds |-> <<>>]]]],
     lc |-> [u \in Users |-> [l \in Lessons |-> 0]]]

\* No member of the archive has been read yet
NoMember == [name |-> <<>>, outcome |-> "none"]

\* No package is being extracted
NoExtraction ==
    [kind |-> "none", storage |-> "none", status |-> "idle", n |-> 0,
     files |-> {}, last |-> NoMember]

\* The two kinds of content package; the model holds one package of each
Kinds == {"scorm", "h5p"}

\* The uploads of an archive, 0 for none; the names of the files an archive holds
MaxUpload == 2
Uploads == 1..MaxUpload
MemberNames == {"a", "b", "c"}

\* member.filename of the entries of upload u: the second archive names its
\* first entry "./a"
Members(u) == IF u = 1 THEN {"a", "b"} ELSE {"./a", "c"}

\* The name under which the storage lists the file saved as
\* {content_path}/{unique_dir}/{member.filename}: the path resolved
StoredName(m) == IF m = "./a" THEN "a" ELSE m
StoredNames(u) == {StoredName(m) : m \in Members(u)}

\* The name the storage gives to the archive of upload u: a storage that
\* overwrites keeps the name, any other one picks a name that is free
ArchiveNames == {"n", "n1", "n2"}
ArchiveName(overwrite, u) ==
    IF overwrite THEN "n" ELSE IF u = 1 THEN "n1" ELSE "n2"

\* Storage locations: <<kind, "zip", archive name>> for an archive,
\* <<kind, extracted directory, member name>> for an extracted file.  The
\* extracted directory is named after the package id and the archive name.
Locs ==
    {<<k, "zip", n>> : k \in Kinds, n \in ArchiveNames}
    \cup {<<k, n, m>> : k \in Kinds, n \in ArchiveNames, m \in MemberNames}

\* No row of the package; upload and extracted record which upload
\* package_file holds and which upload extracted_path was extracted from
NoRow == [exists |-> FALSE, file |-> "", path |-> "", upload |-> 0, extracted |-> 0]

\* No cleanup callback is running.  files are the files in storage, todo
\* and dirs the files and directories of the listing not handled yet, cur
\* the directory being deleted, listed the directories whose listing was
\* asked for, missing those that were not found, tried the files whose
\* deletion was attempted, failed the storage calls that raised otherwise,
\* logged the failures
\* written to the log, raised an exception that left the callback
NoCleanup ==
    [pc |-> "idle", trigger |-> "", has_archive |-> FALSE, has_dir |-> FALSE,
     files |-> {}, cur |-> "", todo |-> <<>>, dirs |-> <<>>, listed |-> {},
     missing |-> {}, tried |-> {}, failed |-> {}, logged |-> {}, raised |-> FALSE]

\* One call of _delete_extracted_content: the extracted_path it was given,
\* the files in storage, the directory being walked, the files of it still
\* to delete, the directories still to walk, the paths listdir and delete
\* were called with in this call, the warning written
NoDeletion ==
    [pc |-> "idle", extracted_path |-> <<>>, store |-> {}, at |-> <<>>,
     queue |-> {}, pending |-> {}, listings |-> {}, deletes |-> {},
     warned |-> FALSE]

\* No package, an empty storage, no transaction
NoPackages ==
    [overwrite |-> FALSE,
     row |-> [k \in Kinds |-> NoRow],
     wrow |-> [k \in Kinds |-> NoRow],
     tx |-> FALSE, broken |-> FALSE,
     files |-> [loc \in Locs |-> 0],
     cbs |-> <<>>,
     ops |-> 0, last |-> "none",
     cleanup |-> NoCleanup,
     deletion |-> NoDeletion]

IdleProc ==
    [pc |-> "idle", user |-> "", aid |-> 0, method |-> "", key |-> "", value |-> "",
     mem |-> NoAttempt, retry |-> 0, err |-> "none", undone |-> FALSE, found |-> FALSE,
     execs |-> 0, reply |-> "", course |-> "", http |-> "", body |-> "",
     vshape |-> "", result |-> "", code |-> "", nparams |-> 0,
     path |-> <<>>, touched |-> FALSE, opened |-> <<>>, headers |-> {},
     activity |-> "", verb |-> "", parent |-> "", score |-> "",
     hmem |-> NoH5PAttempt, enrolled |-> {}, todo |-> <<>>,
     data_type |-> "", sub_content_id |-> 0, raw_data |-> "", data |-> <<>>,
     prior |-> {}]

-----------------------------------------------------------------------------
(* Transactions *)

\* What request p reads: its own uncommitted writes when it holds the lock.
Store(p) == IF lock = p THEN work ELSE db

\* A write statement needs the database write lock.
CanWrite(p) == lock \in {0, p}

\* TxWrite without the transaction: the statement is committed at once
TxWriteAutocommit(p, newdb) == /\ lock' = p
                               /\ work' = newdb
                               /\ db' = newdb

\* A write inside transaction.atomic(): buffered until commit.
TxWrite(p, newdb) == /\ lock' = p
                     /\ work' = newdb
                     /\ db' = db

\* An autocommitted write statement (no enclosing transaction).
AutoWrite(newdb) == /\ lock = 0
                    /\ db' = newdb
                    /\ UNCHANGED <<lock, work>>

-----------------------------------------------------------------------------
(* Enrolment and player access *)

\* enroll_in_course: CourseEnrollment.objects.get_or_create(user, course)
EnrollRow(d, u, c) ==
    IF d.enroll[u][c] = -1 THEN [d EXCEPT !.enroll[u][c] = 0] ELSE d

Enroll(u, c) ==
    /\ calls < MaxCalls
    /\ AutoWrite(EnrollRow(db, u, c))
    /\ calls' = calls + 1
    /\ UNCHANGED <<proc, now, faults, lastSet, auto_enroll, fs, packages>>

AttemptsOf(d, u, pkg) ==
    {i \in 1..Len(d.attempts) :
        d.attempts[i].user = u /\ d.attempts[i].scorm_package = pkg}

\* SCORMAttempt.objects.get_or_create(user, scorm_package, defaults=...)
GetOrCreateAttempt(d, u, pkg) ==
    IF AttemptsOf(d, u, pkg) = {}
    THEN [d EXCEPT !.attempts = Append(@, NewAttempt(u, pkg))]
    ELSE d

\* scorm_player_view, run from its first statement to its last with no other
\* request in between
PlayerAccess(u, c) ==
    /\ calls < MaxCalls
    /\ CoursePackage(c) # NoPackage
    /\ HasLaunchUrl(CoursePackage(c))
    /\ auto_enroll \/ db.enroll[u][c] # -1
    /\ Len(db.attempts) < MaxAttempts \/ AttemptsOf(db, u, CoursePackage(c)) # {}
    /\ AutoWrite(GetOrCreateAttempt(
                    IF auto_enroll THEN EnrollRow(db, u, c) ELSE db,
                    u, CoursePackage(c)))
    /\ calls' = calls + 1
    /\ UNCHANGED <<proc, now, faults, lastSet, auto_enroll, fs, packages>>

\* scorm_player_view as a request of its own, one step per database
\* statement: the package and launch URL tests, then the enrollment test or
\* get_or_create
PlayerStart(p, u, c) ==
    /\ proc[p].pc \in {"idle", "done", "raised"}
    /\ calls < MaxCalls
    /\ LET served == /\ CoursePackage(c) # NoPackage
                     /\ HasLaunchUrl(CoursePackage(c))
                     /\ auto_enroll \/ db.enroll[u][c] # -1
       IN /\ IF served /\ auto_enroll
             THEN AutoWrite(EnrollRow(db, u, c))
             ELSE UNCHANGED <<db, lock, work>>
          /\ proc' = [proc EXCEPT ![p] =
                        [IdleProc EXCEPT !.pc = IF served THEN "pl_get" ELSE "done",
                                         !.method = "player", !.user = u, !.course = c,
                                         !.reply = IF served THEN "" ELSE "redirect"]]
    /\ calls' = calls + 1
    /\ UNCHANGED <<now, faults, lastSet, auto_enroll, fs, packages>>

\* SCORMAttempt.objects.get_or_create: the lookup; several rows make it raise
\* MultipleObjectsReturned
PlayerGet(p) ==
    /\ proc[p].pc = "pl_get"
    /\ LET ids == AttemptsOf(db, proc[p].user, CoursePackage(proc[p].course))
       IN proc' = [proc EXCEPT
                     ![p].found = ids # {},
                     ![p].aid = IF Cardinality(ids) = 1 THEN CHOOSE i \in ids : TRUE ELSE 0,
                     ![p].err = IF Cardinality(ids) > 1 THEN "other" ELSE "none",
                     ![p].reply = IF Cardinality(ids) = 1 THEN "player" ELSE "",
                     ![p].pc = CASE ids = {} -> "pl_create"
                                 [] Cardinality(ids) = 1 -> "done"
                                 [] OTHER -> "raised"]
    /\ UNCHANGED <<db, work, lock, now, calls, faults, lastSet, auto_enroll, fs, packages>>

\* SCORMAttempt.objects.get_or_create: the create after a lookup that found
\* no row; the table has no unique constraint on (user, scorm_package)
PlayerCreate(p) ==
    /\ proc[p].pc = "pl_create"
    /\ Len(db.attempts) < MaxAttempts
    /\ AutoWrite([db EXCEPT !.attempts =
                    Append(@, NewAttempt(proc[p].user, CoursePackage(proc[p].course)))])
    /\ proc' = [proc EXCEPT ![p].pc = "done", ![p].reply = "player",
                            ![p].aid = Len(db.attempts) + 1]
    /\ UNCHANGED <<now, calls, faults, lastSet, auto_enroll, fs, packages>>

-----------------------------------------------------------------------------
(* SCORM RTE: GetValue *)

\* get_scorm_value answering a promoted key from the attempt field first
get_scorm_value_field_first(d, aid, att, key) ==
    CASE key = K_STATUS -> att.completion_status
      [] key = K_LOCATION -> att.location
      [] key = K_SUSPEND -> att.suspend_data
      [] key = K_RAW -> strfloat(att.score_raw)
      [] key = K_MAX -> strfloat(att.score_max)
      [] key = K_MIN -> strfloat(att.score_min)
      [] OTHER -> IF d.data[aid][key] # <<>> THEN d.data[aid][key][1] ELSE ""

\* attempt.user.id and Python str(int)
UserId(u) == IF u = "u1" THEN 1 ELSE 2
strint(i) == IF i = 1 THEN "1" ELSE "2"

\* get_scorm_value without the defaults that read the user
get_scorm_value_no_user(d, aid, att, key) ==
    IF d.data[aid][key] # <<>>
    THEN d.data[aid][key][1]
    ELSE CASE key = K_STATUS -> att.completion_status
           [] key = K_CREDIT -> "credit"
           [] key = K_LOCATION -> att.location
           [] key = K_SUSPEND -> att.suspend_data
           [] key = K_RAW -> strfloat(att.score_raw)
           [] key = K_MAX -> strfloat(att.score_max)
           [] key = K_MIN -> strfloat(att.score_min)
           [] OTHER -> ""

\* get_scorm_value
get_scorm_value(d, aid, att, key) ==
    IF d.data[aid][key] # <<>>
    THEN d.data[aid][key][1]
    ELSE CASE key = K_STATUS -> att.completion_status
           [] key = K_STUDENT_ID -> strint(UserId(att.user))
           [] key = K_CREDIT -> "credit"
           [] key = K_LOCATION -> att.location
           [] key = K_SUSPEND -> att.suspend_data
           [] key = K_RAW -> strfloat(att.score_raw)
           [] key = K_MAX -> strfloat(att.score_max)
           [] key = K_MIN -> strfloat(att.score_min)
           [] OTHER -> ""

-----------------------------------------------------------------------------
(* SCORM RTE: request dispatch *)

\* scorm_api_endpoint: get_object_or_404(SCORMAttempt, id, user) loads the
\* attempt row into the request; the handler is then dispatched by method.
StartRequest(p, u, aid, m, k, v) ==
    /\ proc[p].pc \in {"idle", "done", "raised"}
    /\ calls < MaxRequests
    /\ aid \in 1..Len(db.attempts)
    /\ db.attempts[aid].user = u
    /\ proc' = [proc EXCEPT ![p] =
                  [IdleProc EXCEPT !.pc = "call", !.user = u, !.aid = aid,
                                   !.method = m, !.key = k, !.value = v,
                                   !.mem = db.attempts[aid]]]
    /\ calls' = calls + 1
    /\ UNCHANGED <<db, work, lock, now, faults, lastSet, auto_enroll, fs, packages>>

\* The method names a request can carry: none, one without handler, and
\* handlers
ApiMethods == {"absent", "Unknown", "Initialize", "Commit", "GetValue", "SetValue"}

\* api_dispatch refusing GetValue and SetValue, as an RTE that wants
\* Initialize first would
api_dispatch_uninitialized(http, body, method, n) ==
    IF http # "POST" THEN "201"
    ELSE IF body = "not_json" THEN "201"
    ELSE IF body # "object" THEN "raise"
    ELSE IF method \in {"absent", "Unknown", "GetValue", "SetValue"} THEN "201"
    ELSE "handler"

\* scorm_api_endpoint: what the code does with a request before any handler
\* runs.  Only json.JSONDecodeError is caught: a JSON body that is not an
\* object makes data.get raise AttributeError.
api_dispatch(http, body, method, n) ==
    IF http # "POST" THEN "201"
    ELSE IF body = "not_json" THEN "201"
    ELSE IF body # "object" THEN "raise"
    ELSE IF method \in {"absent", "Unknown"} THEN "201"
    ELSE IF method = "SetValue" /\ n < 2 THEN "201"
    ELSE "handler"

\* get_error_string: the message of an error code
get_error_string(error_code) ==
    CASE error_code = "0" -> "No error"
      [] error_code = "201" -> "General argument error"
      [] OTHER -> "Unknown error"

\* attempt_found without the user in the lookup
attempt_found_any_user(d, aid, u) == aid \in 1..Len(d.attempts)

\* scorm_api_endpoint: get_object_or_404(SCORMAttempt, id=attempt_id,
\* user=request.user) finds the attempt
attempt_found(d, aid, u) ==
    aid \in 1..Len(d.attempts) /\ d.attempts[aid].user = u

\* The methods of the calls that have been answered "true" when a request
\* arrives (kept with the request for the properties; the code keeps nothing)
Answered ==
    {proc[q].method : q \in {r \in Procs : proc[r].pc = "done" /\ proc[r].reply = "true"}}

\* scorm_api_endpoint for a request of any shape: Http404 when the attempt is
\* not the caller's; handle_scorm_initialize, handle_scorm_commit,
\* handle_scorm_get_last_error, handle_scorm_get_diagnostic,
\* handle_scorm_get_error_string and handle_scorm_get_value
\* without parameter (key "", no row, no default) answer at once
ApiRequest(p, u, aid, http, body, method, n, k, v) ==
    /\ proc[p].pc \in {"idle", "done", "raised"}
    /\ calls < MaxCalls
    /\ aid \in AttemptIds
    /\ LET out == api_dispatch(http, body, method, n)
           pr == [IdleProc EXCEPT !.user = u, !.aid = aid, !.method = method,
                                  !.http = http, !.body = body, !.nparams = n,
                                  !.prior = Answered,
                                  !.mem = IF aid \in 1..Len(db.attempts)
                                          THEN db.attempts[aid] ELSE NoAttempt]
       IN proc' = [proc EXCEPT ![p] =
             CASE ~attempt_found(db, aid, u) ->
                    [pr EXCEPT !.pc = "done", !.code = "404", !.mem = NoAttempt]
               [] out = "201" ->
                    [pr EXCEPT !.pc = "done", !.reply = "false", !.code = "201"]
               [] out = "raise" ->
                    [pr EXCEPT !.pc = "raised", !.err = "other"]
               [] out = "handler" /\ method \in {"Initialize", "Commit"} ->
                    [pr EXCEPT !.pc = "done", !.reply = "true", !.code = "0"]
               [] out = "handler" /\ method = "GetLastError" ->
                    [pr EXCEPT !.pc = "done", !.reply = "0", !.code = "0"]
               [] out = "handler" /\ method = "GetDiagnostic" ->
                    [pr EXCEPT !.pc = "done", !.reply = "", !.code = "0"]
               [] out = "handler" /\ method = "GetErrorString" ->
                    [pr EXCEPT !.pc = "done", !.code = "0",
                               !.reply = get_error_string(IF n = 0 THEN "0" ELSE k)]
               [] out = "handler" /\ method = "GetValue" /\ n = 0 ->
                    [pr EXCEPT !.pc = "done", !.reply = "", !.code = "0"]
               [] OTHER ->
                    [pr EXCEPT !.pc = "call", !.key = k,
                               !.value = IF method = "SetValue" THEN v ELSE ""]]
    /\ calls' = calls + 1
    /\ UNCHANGED <<db, work, lock, now, faults, lastSet, auto_enroll, fs, packages>>

\* handle_scorm_get_value
GetValue(p) ==
    /\ proc[p].pc = "call"
    /\ proc[p].method = "GetValue"
    /\ proc' = [proc EXCEPT ![p].pc = "done",
                            ![p].reply = get_scorm_value(db, proc[p].aid,
                                                         proc[p].mem, proc[p].key)]
    /\ UNCHANGED <<db, work, lock, now, calls, faults, lastSet, auto_enroll, fs, packages>>

-----------------------------------------------------------------------------
(* SCORM RTE: SetValue, one step per database statement *)

\* set_scorm_value: the promotion of a key to a field of the in-memory attempt
Promote(att, key, value) ==
    CASE key = K_STATUS -> [att EXCEPT !.completion_status = value]
      [] key = K_LOCATION -> [att EXCEPT !.location = value]
      [] key = K_SUSPEND -> [att EXCEPT !.suspend_data = value]
      [] key = K_RAW -> IF float(value) # <<>>
                        THEN [att EXCEPT !.score_raw = float(value)] ELSE att
      [] key = K_MAX -> IF float(value) # <<>>
                        THEN [att EXCEPT !.score_max = float(value)] ELSE att
      [] key = K_MIN -> IF float(value) # <<>>
                        THEN [att EXCEPT !.score_min = float(value)] ELSE att
      [] OTHER -> att

\* set_scorm_value: attempt_modified
attempt_modified(key, value) ==
    \/ key \in {K_STATUS, K_LOCATION, K_SUSPEND}
    \/ key \in {K_RAW, K_MAX, K_MIN} /\ float(value) # <<>>

\* CompletesEnrollment without the "passed" value
CompletesEnrollmentCompletedOnly(key, value) ==
    key = K_STATUS /\ value = "completed"

\* set_scorm_value: the values of lesson_status that complete the enrollment
CompletesEnrollment(key, value) ==
    key = K_STATUS /\ value \in {"completed", "passed"}

\* MarkEnrollment without the completed_at__isnull=True filter
MarkEnrollmentOverwrite(d, u, pkg, t) ==
    [d EXCEPT !.enroll[u] =
        [c \in Courses |->
            IF CoursePackage(c) = pkg /\ d.enroll[u][c] # -1 THEN t ELSE d.enroll[u][c]]]

\* _mark_enrollment_complete: UPDATE ... WHERE user, course__scorm_package,
\* completed_at IS NULL
MarkEnrollment(d, u, pkg, t) ==
    [d EXCEPT !.enroll[u] =
        [c \in Courses |->
            IF CoursePackage(c) = pkg /\ d.enroll[u][c] = 0 THEN t ELSE d.enroll[u][c]]]

\* set_scorm_value: the score branches catch ValueError only, so the
\* TypeError of float(value) leaves the function
score_raises(key, value) ==
    key \in {K_RAW, K_MAX, K_MIN} /\ float_type_error(value)

\* retry_on_db_lock.wrapper loop head, then the body of set_scorm_value up to
\* its first database statement; an exception of the body other than a
\* database error leaves transaction.atomic() with nothing written
SetValueEnter(p) ==
    /\ proc[p].pc = "call"
    /\ proc[p].method = "SetValue"
    /\ proc' = IF score_raises(proc[p].key, proc[p].value)
               THEN [proc EXCEPT ![p].execs = @ + 1, ![p].err = "other",
                                 ![p].undone = FALSE, ![p].pc = "except"]
               ELSE [proc EXCEPT
                  ![p].mem = Promote(@, proc[p].key, proc[p].value),
                  ![p].execs = @ + 1,
                  ![p].pc = IF CompletesEnrollment(proc[p].key, proc[p].value)
                            THEN "mark"
                            ELSE IF attempt_modified(proc[p].key, proc[p].value)
                                 THEN "save" ELSE "uoc_get"]
    /\ UNCHANGED <<db, work, lock, now, calls, faults, lastSet, auto_enroll, fs, packages>>

\* set_scorm_value: _mark_enrollment_complete(attempt)
Mark(p) ==
    /\ proc[p].pc = "mark"
    /\ CanWrite(p)
    /\ LET d == MarkEnrollment(Store(p), proc[p].mem.user,
                               proc[p].mem.scorm_package, now)
       IN /\ TxWrite(p, d)
          /\ now' = IF d # Store(p) THEN now + 1 ELSE now
    /\ proc' = [proc EXCEPT ![p].pc = "save"]
    /\ UNCHANGED <<calls, faults, lastSet, auto_enroll, fs, packages>>

\* set_scorm_value: attempt.save() writes every field of the in-memory attempt
Save(p) ==
    /\ proc[p].pc = "save"
    /\ CanWrite(p)
    /\ TxWrite(p, [Store(p) EXCEPT !.attempts[proc[p].aid] = proc[p].mem])
    /\ proc' = [proc EXCEPT ![p].pc = "uoc_get"]
    /\ UNCHANGED <<now, calls, faults, lastSet, auto_enroll, fs, packages>>

\* update_or_create: the lookup of the (attempt, key) row
UocGet(p) ==
    /\ proc[p].pc = "uoc_get"
    /\ LET rows == Store(p).data[proc[p].aid][proc[p].key]
       IN proc' = [proc EXCEPT
                     ![p].found = Len(rows) = 1,
                     ![p].err = IF Len(rows) > 1 THEN "other" ELSE "none",
                     ![p].undone = Len(rows) > 1 /\ lock = p,
                     ![p].pc = IF Len(rows) > 1 THEN "except" ELSE "uoc_write"]
    /\ lock' = IF Len(Store(p).data[proc[p].aid][proc[p].key]) > 1 /\ lock = p
               THEN 0 ELSE lock
    /\ work' = IF lock' = 0 THEN EmptyDb ELSE work
    /\ UNCHANGED <<db, now, calls, faults, lastSet, auto_enroll, fs, packages>>

\* The table without its unique constraint
UniqueViolationNever(rows) == FALSE

\* SCORMData.Meta.unique_together = ("attempt", "key")
UniqueViolation(rows) == Len(rows) >= 1

\* update_or_create: UPDATE of the row found, or INSERT; an INSERT that hits
\* the unique constraint falls back to get + UPDATE (get_or_create's
\* IntegrityError handling)
Upsert(rows, found, value) ==
    IF found /\ rows # <<>>
    THEN [rows EXCEPT ![1] = value]
    ELSE IF UniqueViolation(rows)
         THEN [rows EXCEPT ![1] = value]
         ELSE Append(rows, value)

UocWrite(p) ==
    /\ proc[p].pc = "uoc_write"
    /\ CanWrite(p)
    /\ TxWrite(p, [Store(p) EXCEPT !.data[proc[p].aid][proc[p].key] =
                                      Upsert(@, proc[p].found, proc[p].value)])
    /\ proc' = [proc EXCEPT ![p].pc = "commit"]
    /\ UNCHANGED <<now, calls, faults, lastSet, auto_enroll, fs, packages>>

\* leaving transaction.atomic() without an exception: COMMIT
Commit(p) ==
    /\ proc[p].pc = "commit"
    /\ lock = p
    /\ db' = work
    /\ lock' = 0
    /\ work' = EmptyDb
    /\ lastSet' = [lastSet EXCEPT ![proc[p].aid][proc[p].key] = <<proc[p].value>>]
    /\ proc' = [proc EXCEPT ![p].pc = "done", ![p].reply = "true"]
    /\ UNCHANGED <<now, calls, faults, auto_enroll, fs, packages>>

\* A database statement of the body raises: "locked" is the OperationalError
\* "database is locked" (another request holds the write lock), "operr" any
\* other OperationalError, "other" any other exception.  Leaving
\* transaction.atomic() with an exception rolls the transaction back.
Fail(p, kind) ==
    /\ proc[p].pc \in {"mark", "save", "uoc_get", "uoc_write", "commit"}
    /\ IF kind = "locked"
       THEN lock \notin {0, p} /\ faults' = faults
       ELSE faults < MaxFaults /\ faults' = faults + 1
    /\ lock' = IF lock = p THEN 0 ELSE lock
    /\ work' = IF lock' = 0 THEN EmptyDb ELSE work
    /\ proc' = [proc EXCEPT ![p].err = kind, ![p].undone = (lock = p),
                            ![p].pc = "except"]
    /\ UNCHANGED <<db, now, calls, lastSet, auto_enroll, fs, packages>>

\* retry_on_db_lock.wrapper: only OperationalError is caught
Caught(err) == err \in {"locked", "operr"}

\* Exhausted with the comparison off by one
ExhaustedLate(n) == n > max_attempts

\* retry_on_db_lock.wrapper: attempt >= max_attempts
Exhausted(n) == n >= max_attempts

\* IsLockError without the message test: every OperationalError is retried
IsLockErrorAny(err) == TRUE

\* retry_on_db_lock.wrapper: "database is locked" in str(e).lower()
IsLockError(err) == err = "locked"

\* retry_on_db_lock.wrapper: the except clause
Except(p) ==
    /\ proc[p].pc = "except"
    /\ proc' = [proc EXCEPT
                  ![p].retry = IF Caught(proc[p].err) THEN @ + 1 ELSE @,
                  ![p].pc = IF ~Caught(proc[p].err) THEN "raised"
                            ELSE IF Exhausted(proc[p].retry + 1) THEN "raised"
                            ELSE IF ~IsLockError(proc[p].err) THEN "raised"
                            ELSE "sleep"]
    /\ UNCHANGED <<db, work, lock, now, calls, faults, lastSet, auto_enroll, fs, packages>>

\* retry_on_db_lock.wrapper: time.sleep(current_delay), back to the loop head
Sleep(p) ==
    /\ proc[p].pc = "sleep"
    /\ proc' = [proc EXCEPT ![p].pc = "call", ![p].err = "none", ![p].undone = FALSE]
    /\ UNCHANGED <<db, work, lock, now, calls, faults, lastSet, auto_enroll, fs, packages>>

\* handle_scorm_terminate: attempt.save() outside any transaction
Terminate(p) ==
    /\ proc[p].pc = "call"
    /\ proc[p].method = "Terminate"
    /\ AutoWrite([db EXCEPT !.attempts[proc[p].aid] = proc[p].mem])
    /\ proc' = [proc EXCEPT ![p].pc = "done", ![p].reply = "true"]
    /\ UNCHANGED <<now, calls, faults, lastSet, auto_enroll, fs, packages>>

-----------------------------------------------------------------------------
(* H5P xAPI ingestion *)

XAPI_COMPLETED == "http://adlnet.gov/expapi/verbs/completed"
XAPI_PASSED == "http://adlnet.gov/expapi/verbs/passed"
XAPI_FAILED == "http://adlnet.gov/expapi/verbs/failed"
XAPI_ANSWERED == "http://adlnet.gov/expapi/verbs/answered"
XAPI_MASTERED == "http://adlnet.gov/expapi/verbs/mastered"
XAPI_CONSUMED == "http://activitystrea.ms/schema/1.0/consume"
XAPI_SCORED == "http://adlnet.gov/expapi/verbs/scored"
XAPI_INTERACTED == "http://adlnet.gov/expapi/verbs/interacted"

XAPI_SCORE_VERBS ==
    {XAPI_COMPLETED, XAPI_PASSED, XAPI_FAILED, XAPI_ANSWERED, XAPI_MASTERED, XAPI_SCORED}

Verbs == XAPI_SCORE_VERBS \cup {XAPI_CONSUMED, XAPI_INTERACTED}

\* Shapes of statement.context.contextActivities.parent
ParentShapes == {"absent", "empty_list", "list", "object"}

\* The statements ingested: <<verb, parent shape, raw score>>.  Every verb as
\* a top-level statement without score, answered with every parent shape,
\* a child statement of a container with an unconditional verb, and scores
\* on a score-only verb, on a child answered and on a completing verb.
Statements ==
    {<<v, "absent", "absent">> : v \in Verbs}
    \cup {<<XAPI_ANSWERED, ps, "absent">> : ps \in ParentShapes}
    \cup {<<XAPI_COMPLETED, "list", "absent">>, <<XAPI_FAILED, "object", "absent">>,
          <<XAPI_SCORED, "absent", "85">>, <<XAPI_ANSWERED, "list", "85">>,
          <<XAPI_PASSED, "absent", "85">>}

\* is_top_level_statement taking only an object parent for a parent
is_top_level_object_only(parent) == parent # "object"

\* _is_top_level_statement: True unless parent is present and non-empty
is_top_level_statement(parent) ==
    IF parent \in {"absent", "empty_list"} THEN TRUE ELSE FALSE

\* The keys of result.score that _apply_xapi_score reads
ScoreNames == {"raw", "max", "min", "scaled"}

\* result.score of a statement: no score ("absent"), a raw score that parses
\* ("85"), or the four keys with a raw that is no number, a null min and a
\* max and a scaled that parse ("mixed")
ScoreDict(score) ==
    CASE score = "85" ->
           [k \in ScoreNames |-> IF k = "raw" THEN "85" ELSE "absent"]
      [] score = "mixed" ->
           [k \in ScoreNames |->
              CASE k = "raw" -> "page5" [] k = "min" -> JsonNull [] OTHER -> "85"]
      [] OTHER -> [k \in ScoreNames |-> "absent"]

\* _apply_xapi_score, one turn of the loop: the field after the key is read;
\* ValueError and TypeError are caught
ScoreValue(old, score, k) ==
    IF ScoreDict(score)[k] # "absent" /\ float(ScoreDict(score)[k]) # <<>>
    THEN float(ScoreDict(score)[k]) ELSE old

\* _apply_xapi_score: the attempt after the loop
apply_xapi_score(att, score) ==
    [att EXCEPT !.score_raw = ScoreValue(@, score, "raw"),
                !.score_max = ScoreValue(@, score, "max"),
                !.score_min = ScoreValue(@, score, "min"),
                !.score_scaled = ScoreValue(@, score, "scaled")]

\* _apply_xapi_score: modified, True when some key was copied
xapi_score_modified(score) ==
    \E k \in ScoreNames :
        ScoreDict(score)[k] # "absent" /\ float(ScoreDict(score)[k]) # <<>>

\* VerbStatus with the failed branch leaving success_status alone
VerbStatusFailedUnknown(att, verb, top) ==
    IF verb \in {XAPI_COMPLETED, XAPI_FAILED, XAPI_CONSUMED} \/ (verb = XAPI_ANSWERED /\ top)
    THEN [att EXCEPT !.completion_status = "completed"]
    ELSE IF verb \in {XAPI_PASSED, XAPI_MASTERED}
         THEN [att EXCEPT !.completion_status = "completed", !.success_status = "passed"]
         ELSE att

\* _update_h5p_attempt: the verb -> status mapping on the in-memory attempt
VerbStatus(att, verb, top) ==
    CASE verb = XAPI_COMPLETED -> [att EXCEPT !.completion_status = "completed"]
      [] verb = XAPI_PASSED -> [att EXCEPT !.completion_status = "completed",
                                           !.success_status = "passed"]
      [] verb = XAPI_MASTERED -> [att EXCEPT !.completion_status = "completed",
                                             !.success_status = "passed"]
      [] verb = XAPI_FAILED -> [att EXCEPT !.completion_status = "completed",
                                           !.success_status = "failed"]
      [] verb = XAPI_CONSUMED -> [att EXCEPT !.completion_status = "completed"]
      [] verb = XAPI_ANSWERED /\ top -> [att EXCEPT !.completion_status = "completed"]
      [] OTHER -> att

\* _update_h5p_attempt: the in-memory attempt after the verb and the score
update_h5p_attempt(att, verb, parent, score) ==
    LET a1 == VerbStatus(att, verb, is_top_level_statement(parent))
    IN IF verb \in XAPI_SCORE_VERBS THEN apply_xapi_score(a1, score) ELSE a1

\* _update_h5p_attempt: modified
h5p_modified(att, verb, parent, score) ==
    \/ verb \in {XAPI_COMPLETED, XAPI_PASSED, XAPI_MASTERED, XAPI_FAILED, XAPI_CONSUMED}
    \/ verb = XAPI_ANSWERED /\ is_top_level_statement(parent)
    \/ verb \in XAPI_SCORE_VERBS /\ xapi_score_modified(score)

\* TriggersCompletion without the failed verb
TriggersCompletionNoFailed(verb, parent) ==
    \/ verb \in {XAPI_COMPLETED, XAPI_PASSED, XAPI_MASTERED, XAPI_CONSUMED}
    \/ verb = XAPI_ANSWERED /\ is_top_level_statement(parent)

\* _update_h5p_attempt: the verbs after which _mark_h5p_enrollment_complete runs
TriggersCompletion(verb, parent) ==
    \/ verb \in {XAPI_COMPLETED, XAPI_PASSED, XAPI_MASTERED, XAPI_FAILED, XAPI_CONSUMED}
    \/ verb = XAPI_ANSWERED /\ is_top_level_statement(parent)

\* h5p_xapi_view up to H5PAttempt.objects.get_or_create(user, activity)
H5PStart(p, u, a) ==
    /\ proc[p].pc \in {"idle", "done", "raised"}
    /\ calls < MaxCalls
    /\ LET row == IF db.h5p[u][a].exists THEN db.h5p[u][a] ELSE NewH5PAttempt
       IN /\ AutoWrite([db EXCEPT !.h5p[u][a] = row])
          /\ proc' = [proc EXCEPT ![p] =
                        [IdleProc EXCEPT !.pc = "h_stmt", !.method = "xapi",
                                         !.user = u, !.activity = a, !.hmem = row]]
    /\ calls' = calls + 1
    /\ UNCHANGED <<now, faults, lastSet, auto_enroll, fs, packages>>

\* The shapes of an xAPI request: HTTP method, body, "verb" and "result"
HttpMethods == {"GET", "POST"}
Bodies == {"not_json", "non_object", "object"}
Shapes == {"absent", "null", "scalar", "object"}

\* h5p_xapi_view: the method and payload tests, in the order of the code
xapi_validate(http, body, vshape, result) ==
    IF http # "POST" THEN "405"
    ELSE IF body = "not_json" THEN "400"
    ELSE IF body # "object" THEN "400"
    ELSE IF vshape # "object" THEN "400"
    ELSE IF result # "absent" /\ result # "null" /\ result # "object" THEN "400"
    ELSE "ok"

\* h5p_xapi_view up to H5PAttempt.objects.get_or_create, for a request of
\* any shape
XapiRequest(p, u, a, http, body, vshape, result) ==
    /\ proc[p].pc \in {"idle", "done", "raised"}
    /\ calls < MaxCalls
    /\ LET code == xapi_validate(http, body, vshape, result)
           row == IF db.h5p[u][a].exists THEN db.h5p[u][a] ELSE NewH5PAttempt
           pr == [IdleProc EXCEPT !.method = "xapi", !.user = u, !.activity = a,
                                  !.http = http, !.body = body, !.vshape = vshape,
                                  !.result = result]
       IN IF code = "ok"
          THEN /\ AutoWrite([db EXCEPT !.h5p[u][a] = row])
               /\ proc' = [proc EXCEPT ![p] = [pr EXCEPT !.pc = "h_stmt", !.hmem = row]]
          ELSE /\ proc' = [proc EXCEPT ![p] = [pr EXCEPT !.pc = "done", !.reply = code]]
               /\ UNCHANGED <<db, lock, work>>
    /\ calls' = calls + 1
    /\ UNCHANGED <<now, faults, lastSet, auto_enroll, fs, packages>>

\* statement.get("result", {}).get("score", ...): the raw scores a result of
\* the given shape can carry; a null result is None
ScoresOf(result) ==
    CASE result = "null" -> {"null_result"}
      [] result = "object" -> {"absent", "85"}
      [] OTHER -> {"absent"}

\* _apply_xapi_score(attempt, None) raises AttributeError
XapiRaises(verb, score) == verb \in XAPI_SCORE_VERBS /\ score = "null_result"

\* H5PStatement logging only the statements whose verb changes the attempt
H5PStatementMappedOnly(p, verb, parent, score) ==
    /\ proc[p].pc = "h_stmt"
    /\ IF verb \in XAPI_SCORE_VERBS \cup {XAPI_CONSUMED}
       THEN AutoWrite([db EXCEPT !.stmts[proc[p].user][proc[p].activity] = @ + 1])
       ELSE UNCHANGED <<db, lock, work>>
    /\ proc' = [proc EXCEPT ![p].pc = "h_update", ![p].verb = verb,
                            ![p].parent = parent, ![p].score = score]
    /\ UNCHANGED <<now, calls, faults, lastSet, auto_enroll, fs, packages>>

\* h5p_xapi_view: H5PXAPIStatement.objects.create(...)
H5PStatement(p, verb, parent, score) ==
    /\ proc[p].pc = "h_stmt"
    /\ AutoWrite([db EXCEPT !.stmts[proc[p].user][proc[p].activity] = @ + 1])
    /\ proc' = [proc EXCEPT ![p].pc = "h_update", ![p].verb = verb,
                            ![p].parent = parent, ![p].score = score]
    /\ UNCHANGED <<now, calls, faults, lastSet, auto_enroll, fs, packages>>

\* _update_h5p_attempt: attempt.save() when modified, writing every field of
\* the in-memory attempt; a null result under a score verb raises before the
\* save
H5PUpdate(p) ==
    /\ proc[p].pc = "h_update"
    /\ LET pr == proc[p]
           att == update_h5p_attempt(pr.hmem, pr.verb, pr.parent, pr.score)
       IN IF XapiRaises(pr.verb, pr.score)
          THEN /\ proc' = [proc EXCEPT ![p].pc = "raised", ![p].err = "other"]
               /\ UNCHANGED <<db, lock, work>>
          ELSE /\ IF h5p_modified(pr.hmem, pr.verb, pr.parent, pr.score)
                  THEN AutoWrite([db EXCEPT !.h5p[pr.user][pr.activity] = att])
                  ELSE UNCHANGED <<db, lock, work>>
               /\ proc' = [proc EXCEPT
                             ![p].hmem = att,
                             ![p].parent = "", ![p].score = "",
                             ![p].pc = IF TriggersCompletion(pr.verb, pr.parent)
                                       THEN "h_enrolled" ELSE "done"]
    /\ UNCHANGED <<now, calls, faults, lastSet, auto_enroll, fs, packages>>

-----------------------------------------------------------------------------
(* Completion propagation: lesson, course, enrollment *)

\* _collect_lesson_activity_ids
collect_lesson_activity_ids(l) == LessonBody(l)

\* _mark_h5p_enrollment_complete: the live lessons whose body embeds the activity
LessonsEmbedding(a) ==
    SelectSeq(LessonOrder, LAMBDA l : Live(l) /\ a \in LessonBody(l))

\* _try_complete_lesson: the activities of the lesson the user has completed
completed_ids(d, u, l) ==
    {a \in collect_lesson_activity_ids(l) :
        d.h5p[u][a].exists /\ d.h5p[u][a].completion_status = "completed"}

\* LessonDone with the superset test weakened to "some activity completed"
LessonDoneAny(d, u, l) == completed_ids(d, u, l) # {}

\* _try_complete_lesson: completed_ids >= activity_ids
LessonDone(d, u, l) ==
    /\ collect_lesson_activity_ids(l) # {}
    /\ collect_lesson_activity_ids(l) \subseteq completed_ids(d, u, l)

\* _try_complete_course: trackable_lesson_ids
trackable_lesson_ids(c) ==
    {l \in Lessons : LessonParent(l) = c /\ Live(l) /\ collect_lesson_activity_ids(l) # {}}

\* CourseDone counting every live lesson of the course, trackable or not
CourseDoneAllLessons(d, u, c) ==
    \A l \in Lessons : LessonParent(l) = c /\ Live(l) => d.lc[u][l] # 0

\* _try_complete_course: completed_lesson_ids >= trackable_lesson_ids
CourseDone(d, u, c) ==
    /\ trackable_lesson_ids(c) # {}
    /\ \A l \in trackable_lesson_ids(c) : d.lc[u][l] # 0

\* The loop of _mark_h5p_enrollment_complete moves on to the next lesson
NextLesson(pr) ==
    [pr EXCEPT !.todo = Tail(@),
               !.pc = IF Len(pr.todo) > 1 THEN "h_lesson" ELSE "done"]

\* _mark_h5p_enrollment_complete: enrolled_course_ids and the lesson query
HEnrolled(p) ==
    /\ proc[p].pc = "h_enrolled"
    /\ LET ids == {c \in Courses : db.enroll[proc[p].user][c] # -1}
           ls == LessonsEmbedding(proc[p].activity)
       IN proc' = [proc EXCEPT
                     ![p].enrolled = ids,
                     ![p].todo = IF ids = {} THEN <<>> ELSE ls,
                     ![p].pc = IF ids = {} \/ ls = <<>> THEN "done" ELSE "h_lesson"]
    /\ UNCHANGED <<db, work, lock, now, calls, faults, lastSet, auto_enroll, fs, packages>>

\* HLesson without the test that the user is enrolled in the lesson's course
HLessonNoEnrollment(p) ==
    /\ proc[p].pc = "h_lesson"
    /\ LET pr == proc[p]
           l == Head(pr.todo)
       IN proc' = [proc EXCEPT ![p] =
                     IF /\ LessonParent(l) \in Courses
                        /\ LessonDone(db, pr.user, l)
                     THEN [pr EXCEPT !.pc = "h_lc"]
                     ELSE NextLesson(pr)]
    /\ UNCHANGED <<db, work, lock, now, calls, faults, lastSet, auto_enroll, fs, packages>>

\* _mark_h5p_enrollment_complete: the parent and enrollment tests of one
\* lesson, then _try_complete_lesson's query of the completed attempts
HLesson(p) ==
    /\ proc[p].pc = "h_lesson"
    /\ LET pr == proc[p]
           l == Head(pr.todo)
       IN proc' = [proc EXCEPT ![p] =
                     IF /\ LessonParent(l) \in Courses
                        /\ LessonParent(l) \in pr.enrolled
                        /\ LessonDone(db, pr.user, l)
                     THEN [pr EXCEPT !.pc = "h_lc"]
                     ELSE NextLesson(pr)]
    /\ UNCHANGED <<db, work, lock, now, calls, faults, lastSet, auto_enroll, fs, packages>>

\* HLessonCreate writing completed_at whether or not the row exists
HLessonCreateOverwrite(p) ==
    /\ proc[p].pc = "h_lc"
    /\ LET pr == proc[p]
           l == Head(pr.todo)
       IN AutoWrite([db EXCEPT !.lc[pr.user][l] = now])
    /\ proc' = [proc EXCEPT ![p].pc = "h_course"]
    /\ UNCHANGED <<now, calls, faults, lastSet, auto_enroll, fs, packages>>

\* _try_complete_lesson: LessonCompletion.objects.get_or_create(user, lesson)
HLessonCreate(p) ==
    /\ proc[p].pc = "h_lc"
    /\ LET pr == proc[p]
           l == Head(pr.todo)
       IN AutoWrite([db EXCEPT !.lc[pr.user][l] = IF @ = 0 THEN now ELSE @])
    /\ proc' = [proc EXCEPT ![p].pc = "h_course"]
    /\ UNCHANGED <<now, calls, faults, lastSet, auto_enroll, fs, packages>>

\* _try_complete_course: the query of the user's lesson completions
HCourse(p) ==
    /\ proc[p].pc = "h_course"
    /\ LET pr == proc[p]
           c == LessonParent(Head(pr.todo))
       IN proc' = [proc EXCEPT ![p] =
                     IF CourseDone(db, pr.user, c)
                     THEN [pr EXCEPT !.pc = "h_course_upd"]
                     ELSE NextLesson(pr)]
    /\ UNCHANGED <<db, work, lock, now, calls, faults, lastSet, auto_enroll, fs, packages>>

\* _try_complete_course: UPDATE ... WHERE user, course, completed_at IS NULL
CompleteCourse(d, u, c, t) ==
    IF d.enroll[u][c] = 0 THEN [d EXCEPT !.enroll[u][c] = t] ELSE d

HCourseUpdate(p) ==
    /\ proc[p].pc = "h_course_upd"
    /\ LET pr == proc[p]
           c == LessonParent(Head(pr.todo))
           d == CompleteCourse(db, pr.user, c, now)
       IN /\ AutoWrite(d)
          /\ now' = IF d # db THEN now + 1 ELSE now
          /\ proc' = [proc EXCEPT ![p] = NextLesson(pr)]
    /\ UNCHANGED <<calls, faults, lastSet, auto_enroll, fs, packages>>

\* No request is being handled
Quiet == \A p \in Procs : proc[p].pc \in {"idle", "done", "raised"}

\* Initial stores: the empty site, or u1 already enrolled in both courses
InitDbs == {EmptyDb, [EmptyDb EXCEPT !.enroll["u1"] = [c \in Courses |-> 0]]}

InitH5P ==
    /\ db \in InitDbs
    /\ work = EmptyDb
    /\ lock = 0
    /\ proc = [p \in Procs |-> IdleProc]
    /\ now = 1
    /\ calls = 0
    /\ faults = 0
    /\ lastSet = [a \in AttemptIds |-> [k \in Keys |-> <<>>]]
    /\ auto_enroll = FALSE
    /\ fs = NoExtraction
    /\ packages = NoPackages

\* Requests handled one after the other: xAPI ingests and enrolments
NextH5P ==
    \/ \E u \in Users, c \in Courses : Quiet /\ Enroll(u, c)
    \/ \E u \in Users, a \in Activities : Quiet /\ H5PStart(1, u, a)
    \/ \E st \in Statements : H5PStatement(1, st[1], st[2], st[3])
    \/ H5PUpdate(1)
    \/ HEnrolled(1)
    \/ HLesson(1)
    \/ HLessonCreate(1)
    \/ HCourse(1)
    \/ HCourseUpdate(1)

SpecH5P == InitH5P /\ [][NextH5P]_vars

-----------------------------------------------------------------------------
(* Properties of the xAPI ingestion and of the completion propagation *)

\* The user has completed the activity
Completed(d, u, a) ==
    d.h5p[u][a].exists /\ d.h5p[u][a].completion_status = "completed"

\* Every live lesson of course c with at least one activity has a
\* LessonCompletion of user u
AllTrackableLessonsCompleted(d, u, c) ==
    \A l \in Lessons :
        (LessonParent(l) = c /\ Live(l) /\ LessonBody(l) # {}) => d.lc[u][l] # 0

\* Every activity of every live lesson of course c is completed by user u
AllActivitiesCompleted(d, u, c) ==
    \A l \in Lessons : (LessonParent(l) = c /\ Live(l)) =>
        \A a \in LessonBody(l) : Completed(d, u, a)

\* C8: aggregation safety.  A step that sets an enrollment's completed_at
\* starts in a state where every trackable live lesson of the course has a
\* LessonCompletion of the user; a step that creates a LessonCompletion starts
\* in a state where every activity of the lesson is completed by the user; and
\* the enrollment in c2 (lessons l1 = {a1}, l2 = {a2}) is completed only when
\* both a1 and a2 are.
AggregationSafety ==
    [][\A u \in Users :
         /\ \A c \in Courses :
               (db.enroll[u][c] = 0 /\ db'.enroll[u][c] > 0)
                  => AllTrackableLessonsCompleted(db, u, c)
         /\ \A l \in Lessons :
               (db.lc[u][l] = 0 /\ db'.lc[u][l] # 0)
                  => \A a \in LessonBody(l) : Completed(db, u, a)
         /\ db'.enroll[u]["c2"] > 0 => Completed(db', u, "a1") /\ Completed(db', u, "a2")
      ]_vars

\* C8 witness: the enrollment in c2 is completed, and so is the two-activity
\* lesson l5.
AggregationSafetyReached ==
    \E u \in Users : db.enroll[u]["c2"] > 0 /\ db.lc[u]["l5"] # 0

\* An ingest call of request slot 1 ends with this step
IngestEnds == /\ proc[1].pc \notin {"idle", "done"}
              /\ proc'[1].pc = "done"
              /\ proc'[1].method = "xapi"

\* C9 as claimed: at the end of every ingest call, an enrolled user who has
\* completed every activity of every live lesson of the course has
\* completed_at set.
AggregationCompleteByActivities ==
    [][IngestEnds =>
         \A u \in Users, c \in Courses :
            (db'.enroll[u][c] # -1 /\ AllActivitiesCompleted(db', u, c))
               => db'.enroll[u][c] > 0]_vars

\* C9 as amended: at the end of every ingest call, an enrolled user who has a
\* LessonCompletion for every trackable live lesson of the course (there is
\* at least one) has completed_at set; informational and draft lessons are
\* not waited for.
AggregationCompleteByLessons ==
    [][IngestEnds =>
         \A u \in Users, c \in Courses :
            (/\ db'.enroll[u][c] # -1
             /\ \E l \in Lessons : LessonParent(l) = c /\ Live(l) /\ LessonBody(l) # {}
             /\ AllTrackableLessonsCompleted(db', u, c))
               => db'.enroll[u][c] > 0]_vars

\* C9 witness: an ingest has ended with the course c2 completed while its
\* informational lesson l3 and its draft lesson l4 have no LessonCompletion.
AggregationCompleteReached ==
    /\ proc[1].pc = "done" /\ proc[1].method = "xapi"
    /\ \E u \in Users : /\ db.enroll[u]["c2"] > 0
                        /\ db.lc[u]["l1"] # 0 /\ db.lc[u]["l2"] # 0
                        /\ db.lc[u]["l3"] = 0 /\ db.lc[u]["l4"] = 0

\* The (completion_status, success_status) the mapping table gives
TableStatus(verb, top, old) ==
    CASE verb = XAPI_COMPLETED -> <<"completed", old[2]>>
      [] verb = XAPI_PASSED -> <<"completed", "passed">>
      [] verb = XAPI_MASTERED -> <<"completed", "passed">>
      [] verb = XAPI_FAILED -> <<"completed", "failed">>
      [] verb = XAPI_CONSUMED -> <<"completed", old[2]>>
      [] verb = XAPI_ANSWERED -> IF top THEN <<"completed", old[2]>> ELSE old
      [] OTHER -> old

Statuses(row) == <<row.completion_status, row.success_status>>

\* C10: verb-to-state mapping.  The step that applies a statement to the
\* attempt leaves the stored attempt with the statuses of the table:
\* completed and consumed -> (completed, unchanged); passed and mastered ->
\* (completed, passed); failed -> (completed, failed); top-level answered ->
\* (completed, unchanged); any other verb -> both unchanged.
VerbMapping ==
    [][\A p \in Procs :
         (proc[p].pc = "h_update" /\ proc'[p].pc # "h_update") =>
            LET pr == proc[p]
                old == Statuses(db.h5p[pr.user][pr.activity])
                top == pr.parent \in {"absent", "empty_list"}
            IN Statuses(db'.h5p[pr.user][pr.activity]) = TableStatus(pr.verb, top, old)
      ]_vars

\* C10 witness: a failed statement and a passed statement have been applied,
\* and a child answered statement has left an attempt not completed.
VerbMappingReached ==
    \E u \in Users :
        /\ Statuses(db.h5p[u]["a1"]) = <<"completed", "failed">>
        /\ Statuses(db.h5p[u]["a2"]) = <<"completed", "passed">>
        /\ proc[1].pc = "done" /\ proc[1].verb = XAPI_ANSWERED
        /\ proc[1].activity = "a3"
        /\ Statuses(db.h5p[u]["a3"]) = <<"not_attempted", "unknown">>

\* The ingest call of request slot 1 applies its statement with this step
Applies == proc[1].pc = "h_update" /\ proc'[1].pc # "h_update"

\* C11: top-level filtering.  The step that applies an answered statement
\* stores completion_status "completed" and goes on to the completion
\* propagation exactly when the parent is absent or empty; with a non-empty
\* parent (object or list) it leaves completion_status, every
\* LessonCompletion and every enrollment as they are and the call ends.
TopLevelFiltering ==
    [][(Applies /\ proc[1].verb = XAPI_ANSWERED) =>
         LET u == proc[1].user
             a == proc[1].activity
         IN IF proc[1].parent \in {"absent", "empty_list"}
            THEN /\ db'.h5p[u][a].completion_status = "completed"
                 /\ proc'[1].pc = "h_enrolled"
            ELSE /\ proc[1].parent \in {"list", "object"}
                 /\ db'.h5p[u][a].completion_status = db.h5p[u][a].completion_status
                 /\ db'.lc = db.lc /\ db'.enroll = db.enroll
                 /\ proc'[1].pc = "done"
      ]_vars

\* C11 witness: u1, enrolled in c3, has sent one statement for a2, the only
\* activity of c3: an answered statement with a score and a non-empty parent.
\* The score is stored; the attempt is not completed, l7 has no
\* LessonCompletion and the enrollment is not completed.
TopLevelFilteringReached ==
    /\ proc[1].pc = "done" /\ proc[1].verb = XAPI_ANSWERED
    /\ proc[1].user = "u1" /\ proc[1].activity = "a2"
    /\ db.stmts["u1"]["a2"] = 1
    /\ db.h5p["u1"]["a2"].score_raw = <<85>>
    /\ db.h5p["u1"]["a2"].completion_status = "not_attempted"
    /\ db.enroll["u1"]["c3"] = 0 /\ db.lc["u1"]["l7"] = 0

\* l is the only trackable live lesson of course c and embeds only activity a
SoleLesson(c, l, a) ==
    /\ {x \in Lessons : LessonParent(x) = c /\ Live(x) /\ LessonBody(x) # {}} = {l}
    /\ LessonBody(l) = {a}

FailedLeavesEnrollment ==
    [][(IngestEnds /\ proc[1].verb = XAPI_FAILED) =>
          \A c \in Courses, l \in Lessons :
             (/\ SoleLesson(c, l, proc[1].activity)
              /\ db.stmts[proc[1].user][proc[1].activity] = 1)
                => db'.enroll[proc[1].user][c] <= 0
      ]_vars

\* C20: a LessonCompletion (user, lesson) is created only for the user of the
\* ingest under way, a live lesson whose parent is a course, and a course the
\* user is enrolled in at that time; no step of an ingest by a user without
\* any enrollment changes a LessonCompletion or an enrollment or raises, and
\* the propagation of such an ingest ends the call with success at once.
LessonCompletionGuarded ==
    [][/\ \A u \in Users, l \in Lessons :
            (db.lc[u][l] = 0 /\ db'.lc[u][l] # 0)
              => /\ u = proc[1].user /\ proc[1].method = "xapi"
                 /\ Live(l)
                 /\ LessonParent(l) \in Courses
                 /\ db.enroll[u][LessonParent(l)] # -1
       /\ (/\ proc[1].method = "xapi" /\ proc[1].pc \notin {"idle", "done", "raised"}
           /\ \A c \in Courses : db.enroll[proc[1].user][c] = -1)
             => /\ db'.lc = db.lc /\ db'.enroll = db.enroll
                /\ proc'[1].pc # "raised"
                /\ proc[1].pc = "h_enrolled" => proc'[1].pc = "done"
      ]_vars

\* C20 witness: u1, enrolled, and u2, without any enrollment, have both
\* completed a2; u1 has the LessonCompletion of l7 (live, in course c3) and
\* none of l6 (no course parent); u2 has none and its ingest has ended.
LessonCompletionGuardedReached ==
    /\ db.h5p["u1"]["a2"].completion_status = "completed"
    /\ db.lc["u1"]["l7"] # 0 /\ db.lc["u1"]["l6"] = 0
    /\ \A c \in Courses : db.enroll["u2"][c] = -1
    /\ db.h5p["u2"]["a2"].completion_status = "completed"
    /\ \A l \in Lessons : db.lc["u2"][l] = 0
    /\ proc[1].pc = "done" /\ proc[1].user = "u2" /\ proc[1].verb = XAPI_COMPLETED

-----------------------------------------------------------------------------
(* Package extraction: SCORMPackage.extract_package and                    *)
(* H5PActivity.extract_package                                             *)

\* A member name is the sequence of its "/"-separated segments; a segment is
\* the sequence of its "\"-separated atoms.  a\b/../x is
\* << <<"a","b">>, <<"..">>, <<"x">> >>.
Atoms == {"", ".", "..", "a"}
Segments == {<<x>> : x \in Atoms} \cup {<<x, y>> : x \in {"a", ".."}, y \in Atoms}
EMPTY == <<"">>
DOT == <<".">>
DOTDOT == <<"..">>

\* Every name of one or two segments, and longer names that climb
LongNames ==
    {<<<<"a">>, DOTDOT, <<"a">>>>, <<<<"a">>, DOT, <<"a">>>>,
     <<<<"a">>, <<"a">>, <<"a">>>>, <<DOT, DOTDOT, <<"a">>>>,
     <<<<"a">>, DOTDOT, DOTDOT>>, <<<<"a">>, EMPTY, <<"a">>>>,
     <<<<"a">>, DOTDOT, DOTDOT, <<"a">>>>,
     <<<<"a", "a">>, DOTDOT, DOTDOT, <<"a">>>>,
     <<<<"a", "a">>, <<"a">>, DOTDOT, DOTDOT, DOTDOT, <<"a">>>>}

Names ==
    ({<<s>> : s \in Segments} \cup {<<s, t>> : s, t \in Segments} \cup LongNames)
       \ {<<EMPTY>>}

\* str.replace("\\", "/"): every atom becomes a segment of its own
RECURSIVE replace_backslash(_)
replace_backslash(name) ==
    IF name = <<>> THEN <<>>
    ELSE [i \in 1..Len(Head(name)) |-> <<Head(name)[i]>>] \o replace_backslash(Tail(name))

\* The path starts with "/"
isabs(path) == Len(path) >= 2 /\ path[1] = EMPTY

\* The loop of posixpath.normpath over the segments
RECURSIVE normpath_comps(_, _, _)
normpath_comps(rest, comps, abs) ==
    IF rest = <<>> THEN comps
    ELSE LET c == Head(rest)
         IN IF c \in {EMPTY, DOT}
            THEN normpath_comps(Tail(rest), comps, abs)
            ELSE IF \/ c # DOTDOT
                    \/ (~abs /\ comps = <<>>)
                    \/ (comps # <<>> /\ comps[Len(comps)] = DOTDOT)
                 THEN normpath_comps(Tail(rest), Append(comps, c), abs)
                 ELSE IF comps # <<>>
                      THEN normpath_comps(Tail(rest), SubSeq(comps, 1, Len(comps) - 1), abs)
                      ELSE normpath_comps(Tail(rest), comps, abs)

\* posixpath.normpath: abs for the leading "/", comps for the segments kept;
\* the empty comps of a relative path stand for "."
normpath(path) == [abs |-> isabs(path), comps |-> normpath_comps(path, <<>>, isabs(path))]

\* member.is_dir(): the name ends with "/"
is_dir(name) == name[Len(name)] = EMPTY /\ Len(name) >= 2

\* The test of extract_package on the normalized name
suspicious(n) ==
    \/ ~n.abs /\ n.comps = <<>>
    \/ n.abs
    \/ ~n.abs /\ n.comps # <<>> /\ n.comps[1] = DOTDOT
    \/ \E i \in 1..Len(n.comps) :
          n.comps[i] = DOTDOT /\ i < Len(n.comps) /\ (i > 1 \/ n.abs)

\* content_path and unique_dir
ROOT == <<"root">>
DIR == <<"dir">>

\* posixpath.join(content_path, unique_dir, member.filename): the name as it
\* is in the archive
storage_path(name) == IF isabs(name) THEN name ELSE <<ROOT, DIR>> \o name

\* The storage backends: one resolves the path it is given, "/" being the
\* only separator; one refuses, as Django's Storage.save does, a path with a
\* ".." part once "\" is read as "/"
Storages == {"resolving", "validating"}

\* The storage raises on this path
refused(storage, path) ==
    /\ storage = "validating"
    /\ isabs(path) \/ \E i \in 1..Len(replace_backslash(path)) :
                         replace_backslash(path)[i] = DOTDOT

\* The location a path resolves to
location(path) == normpath(path)

\* The location is below {content_root}/{extracted_dir}/
inside(loc) ==
    /\ ~loc.abs
    /\ Len(loc.comps) > 2
    /\ loc.comps[1] = ROOT /\ loc.comps[2] = DIR

MaxMembers == 2

\* default_storage.save: a name that is taken gets a suffix
saved(files, loc) ==
    IF [loc |-> loc, renamed |-> FALSE] \in files
    THEN files \cup {[loc |-> loc, renamed |-> TRUE]}
    ELSE files \cup {[loc |-> loc, renamed |-> FALSE]}

\* default_storage.delete, which H5P extraction calls before each save
deleted(files, loc) == files \ {[loc |-> loc, renamed |-> FALSE]}

\* extract_package is entered for a package of this kind
ExtractOpen(kind, storage) ==
    /\ fs.status = "idle"
    /\ fs' = [NoExtraction EXCEPT !.kind = kind, !.storage = storage, !.status = "open"]
    /\ UNCHANGED <<db, work, lock, proc, now, calls, faults, lastSet, auto_enroll, packages>>

\* One turn of the loop over zip_ref.infolist()
ExtractMember(name) ==
    /\ fs.status = "open"
    /\ fs.n < MaxMembers
    /\ LET sp == storage_path(name)
           outcome ==
              IF is_dir(name) THEN "directory"
              ELSE IF suspicious(normpath(replace_backslash(name))) THEN "skipped"
              ELSE IF refused(fs.storage, sp) THEN "raised"
              ELSE "written"
           before == IF fs.kind = "h5p" THEN deleted(fs.files, location(sp)) ELSE fs.files
       IN fs' = [fs EXCEPT
                   !.n = @ + 1,
                   !.last = [name |-> name, outcome |-> outcome],
                   !.status = IF outcome = "raised" THEN "aborted" ELSE @,
                   !.files = IF outcome = "written" THEN saved(before, location(sp)) ELSE @]
    /\ UNCHANGED <<db, work, lock, proc, now, calls, faults, lastSet, auto_enroll, packages>>

\* The loop ends: extracted_path is set
ExtractClose ==
    /\ fs.status = "open"
    /\ fs' = [fs EXCEPT !.status = "done"]
    /\ UNCHANGED <<db, work, lock, proc, now, calls, faults, lastSet, auto_enroll, packages>>

InitExtract ==
    /\ db = EmptyDb
    /\ work = EmptyDb
    /\ lock = 0
    /\ proc = [p \in Procs |-> IdleProc]
    /\ now = 1
    /\ calls = 0
    /\ faults = 0
    /\ lastSet = [a \in AttemptIds |-> [k \in Keys |-> <<>>]]
    /\ auto_enroll = FALSE
    /\ fs = NoExtraction
    /\ packages = NoPackages

NextExtract ==
    \/ \E kind \in {"scorm", "h5p"}, storage \in Storages : ExtractOpen(kind, storage)
    \/ \E name \in Names : ExtractMember(name)
    \/ ExtractClose

SpecExtract == InitExtract /\ [][NextExtract]_vars

\* C3: traversal rejection on extraction.  A file entry is skipped when its
\* normalized name is ".", starts with "/", starts with ".." or contains
\* "/../"; a skip does not abort the extraction; every other file entry is
\* written; and no file is stored outside {content_root}/{extracted_dir}/.
TraversalRejection ==
    /\ (fs.last.name # <<>> /\ ~is_dir(fs.last.name)) =>
          IF suspicious(normpath(replace_backslash(fs.last.name)))
          THEN fs.last.outcome = "skipped" /\ fs.status # "aborted"
          ELSE fs.last.outcome = "written"
    /\ \A f \in fs.files : inside(f.loc)

-----------------------------------------------------------------------------
(* Specification of the SCORM runtime: concurrent RTE requests, enrolment *)
(* and player access                                                       *)

\* Initial stores: the empty site, or u1 enrolled in the SCORM course c1 with
\* the attempt the player view created
InitRTEDbs ==
    {EmptyDb,
     [EmptyDb EXCEPT !.enroll["u1"]["c1"] = 0,
                     !.attempts = <<NewAttempt("u1", "p1")>>]}

InitRTE ==
    /\ db \in InitRTEDbs
    /\ work = EmptyDb
    /\ lock = 0
    /\ proc = [p \in Procs |-> IdleProc]
    /\ now = 1
    /\ calls = 0
    /\ faults = 0
    /\ lastSet = [a \in AttemptIds |-> [k \in Keys |-> <<>>]]
    /\ auto_enroll \in BOOLEAN
    /\ fs = NoExtraction
    /\ packages = NoPackages

NextRTE ==
    \/ \E u \in Users, c \in Courses : Enroll(u, c)
    \/ \E u \in Users, c \in Courses : PlayerAccess(u, c)
    \/ \E p \in Procs, u \in Users, aid \in AttemptIds, kv \in SetInputs :
          StartRequest(p, u, aid, "SetValue", kv[1], kv[2])
    \/ \E p \in Procs, u \in Users, aid \in AttemptIds, k \in SetKeys :
          StartRequest(p, u, aid, "GetValue", k, "")
    \/ \E p \in Procs, u \in Users, aid \in AttemptIds :
          StartRequest(p, u, aid, "Terminate", "", "")
    \/ \E p \in Procs : GetValue(p)
    \/ \E p \in Procs : SetValueEnter(p)
    \/ \E p \in Procs : Mark(p)
    \/ \E p \in Procs : Save(p)
    \/ \E p \in Procs : UocGet(p)
    \/ \E p \in Procs : UocWrite(p)
    \/ \E p \in Procs : Commit(p)
    \/ \E p \in Procs, kind \in {"locked", "operr", "other"} : Fail(p, kind)
    \/ \E p \in Procs : Except(p)
    \/ \E p \in Procs : Sleep(p)
    \/ \E p \in Procs : Terminate(p)

SpecRTE == InitRTE /\ [][NextRTE]_vars

-----------------------------------------------------------------------------
(* Properties of the SCORM RTE *)

\* Request slot p takes a step
Steps(p) == proc'[p] # proc[p]

\* Request slot p commits its SetValue transaction with this step
Commits(p) == /\ proc[p].method = "SetValue"
              /\ proc[p].pc = "commit"
              /\ proc'[p].pc = "done"

\* C1: RTE round trip.  A GetValue on a key for which a SetValue has
\* succeeded on that attempt replies the value of the last successful
\* SetValue, and so does the store in every state, whether or not the key is
\* promoted and whether or not a score value parses.
RoundTrip ==
    /\ [](\A aid \in 1..Len(db.attempts), k \in Keys :
             lastSet[aid][k] # <<>> =>
                get_scorm_value(db, aid, db.attempts[aid], k) = lastSet[aid][k][1])
    /\ [][\A p \in Procs :
            (/\ proc[p].method = "GetValue" /\ proc[p].pc = "call"
             /\ proc'[p].pc = "done"
             /\ lastSet[proc[p].aid][proc[p].key] # <<>>)
               => proc'[p].reply = lastSet[proc[p].aid][proc[p].key][1]]_vars

\* C1 witness: GetValue has replied the unparsable value set on a score key.
RoundTripReached ==
    \E p \in Procs :
        /\ proc[p].method = "GetValue" /\ proc[p].pc = "done"
        /\ proc[p].key = K_RAW /\ proc[p].reply = "page5"
        /\ lastSet[proc[p].aid][K_RAW] = <<"page5">>

\* C4: a SetValue is all-or-nothing in the store.  No step of a SetValue
\* request other than its commit changes the committed rows (so a call that
\* ends in an error leaves them as they were), and the commit makes the
\* promoted field, the enrollment completion and the data point visible
\* together.
AtomicSetValue ==
    [][\A p \in Procs :
         /\ (proc[p].method = "SetValue" /\ Steps(p) /\ ~Commits(p)) => db' = db
         /\ Commits(p) =>
              LET pr == proc[p]
                  att == db'.attempts[pr.aid]
              IN /\ db'.data[pr.aid][pr.key] = <<pr.value>>
                 /\ pr.key = K_STATUS => att.completion_status = pr.value
                 /\ pr.key = K_LOCATION => att.location = pr.value
                 /\ (pr.key = K_RAW /\ pr.value = "85") => att.score_raw = <<85>>
                 /\ (pr.key = K_STATUS /\ pr.value \in {"completed", "passed"}) =>
                       \A c \in Courses :
                          (CoursePackage(c) = att.scorm_package
                             /\ db.enroll[pr.user][c] # -1) => db'.enroll[pr.user][c] > 0
      ]_vars

\* C4 witness: a SetValue of lesson_status "completed" has ended in an error
\* raised after writes of its transaction, which were rolled back; the
\* enrollment, the attempt and the data point are as before the call.
AtomicSetValueReached ==
    \E p \in Procs :
        /\ proc[p].pc = "raised" /\ proc[p].undone
        /\ proc[p].key = K_STATUS /\ proc[p].value = "completed"
        /\ db.enroll[proc[p].user]["c1"] = 0
        /\ db.attempts[proc[p].aid].completion_status = "incomplete"
        /\ db.data[proc[p].aid][K_STATUS] = <<>>

\* C5: retry bound.  The body of one SetValue call is executed at most
\* max_attempts = 5 times; a call whose executions failed only with the lock
\* error gives up only after the 5th execution; after the 5th failed
\* execution the error is raised, not retried; and a commit after retries
\* leaves the data point and the promoted field as a first-time commit does.
RetryBound ==
    /\ [](\A p \in Procs :
             /\ proc[p].execs <= 5
             /\ (proc[p].pc = "raised" /\ proc[p].err = "locked") => proc[p].execs = 5
             /\ proc[p].pc = "sleep" => proc[p].execs < 5)
    /\ [][\A p \in Procs :
            (Commits(p) /\ proc[p].retry > 0) =>
               /\ db'.data[proc[p].aid][proc[p].key] = <<proc[p].value>>
               /\ proc[p].key = K_LOCATION =>
                     db'.attempts[proc[p].aid].location = proc[p].value]_vars

\* C5 witness: a call has succeeded at its 5th execution, after 4 lock errors.
RetryBoundReached ==
    \E p \in Procs : proc[p].pc = "done" /\ proc[p].retry = 4 /\ proc[p].execs = 5

\* C6: an error that is not the lock error is raised at once.  From the
\* except clause such an error leads to "raised" and never to the sleep, and
\* a call that has raised executes its body no more.
NonTransientRaisedAtOnce ==
    [][\A p \in Procs :
         /\ (proc[p].pc = "except" /\ proc[p].err # "locked" /\ Steps(p)) =>
               proc'[p].pc = "raised" /\ proc'[p].execs = proc[p].execs
         /\ (proc[p].pc = "raised" /\ Steps(p)) => proc'[p].execs = 0
      ]_vars

\* C6 witness: a call has raised an OperationalError that is not the lock
\* error after a single execution.
NonTransientReached ==
    \E p \in Procs : proc[p].pc = "raised" /\ proc[p].err = "operr" /\ proc[p].execs = 1

\* C7: unique per key under races.  In every state there is at most one data
\* point per (attempt, key), a data point exists exactly for the keys set
\* successfully, and it holds the value of the last SetValue committed.
UniquePerKey ==
    \A aid \in AttemptIds, k \in Keys :
        /\ Len(db.data[aid][k]) <= 1
        /\ Len(db.data[aid][k]) = Len(lastSet[aid][k])
        /\ db.data[aid][k] # <<>> => db.data[aid][k][1] = lastSet[aid][k][1]

\* C7 witness: two requests have set the same new key of one attempt to
\* different values, both having looked the row up before either inserted it.
UniquePerKeyReached ==
    /\ proc[1].pc = "done" /\ proc[2].pc = "done"
    /\ proc[1].method = "SetValue" /\ proc[2].method = "SetValue"
    /\ proc[1].aid = proc[2].aid /\ proc[1].key = proc[2].key
    /\ proc[1].value # proc[2].value
    /\ ~proc[1].found /\ ~proc[2].found

-----------------------------------------------------------------------------
(* Specification of course completion: SetValue requests, xAPI ingests,    *)
(* enrolments and player accesses of one user, interleaved                 *)

\* u1 is enrolled in c1, which has both the SCORM package p1 and the lesson
\* l5; the player view has created the attempt, and a1 is completed already
InitCompletionDb ==
    [EmptyDb EXCEPT !.enroll["u1"]["c1"] = 0,
                    !.attempts = <<NewAttempt("u1", "p1")>>,
                    !.h5p["u1"]["a1"] =
                        [NewH5PAttempt EXCEPT !.completion_status = "completed"],
                    !.stmts["u1"]["a1"] = 1]

\* The SetValue requests of this specification: the two completing values
\* of lesson_status, another value of it, and another key
CompletionInputs ==
    {<<K_STATUS, "completed">>, <<K_STATUS, "passed">>, <<K_STATUS, "page5">>,
     <<K_LOCATION, "page5">>}

InitCompletion ==
    /\ db = InitCompletionDb
    /\ work = EmptyDb
    /\ lock = 0
    /\ proc = [p \in Procs |-> IdleProc]
    /\ now = 1
    /\ calls = 0
    /\ faults = 0
    /\ lastSet = [a \in AttemptIds |-> [k \in Keys |-> <<>>]]
    /\ auto_enroll \in BOOLEAN
    /\ fs = NoExtraction
    /\ packages = NoPackages

NextCompletion ==
    \/ \E c \in Courses : Enroll("u1", c)
    \/ \E c \in Courses : PlayerAccess("u1", c)
    \/ \E p \in Procs, kv \in CompletionInputs :
          StartRequest(p, "u1", 1, "SetValue", kv[1], kv[2])
    \/ \E p \in Procs : SetValueEnter(p)
    \/ \E p \in Procs : Mark(p)
    \/ \E p \in Procs : Save(p)
    \/ \E p \in Procs : UocGet(p)
    \/ \E p \in Procs : UocWrite(p)
    \/ \E p \in Procs : Commit(p)
    \/ \E p \in Procs, kind \in {"locked", "operr", "other"} : Fail(p, kind)
    \/ \E p \in Procs : Except(p)
    \/ \E p \in Procs : Sleep(p)
    \/ \E p \in Procs, a \in {"a1", "a3"} : H5PStart(p, "u1", a)
    \/ \E p \in Procs, verb \in {XAPI_COMPLETED, XAPI_INTERACTED} :
          H5PStatement(p, verb, "absent", "absent")
    \/ \E p \in Procs : H5PUpdate(p)
    \/ \E p \in Procs : HEnrolled(p)
    \/ \E p \in Procs : HLesson(p)
    \/ \E p \in Procs : HLessonCreate(p)
    \/ \E p \in Procs : HCourse(p)
    \/ \E p \in Procs : HCourseUpdate(p)

SpecCompletion == InitCompletion /\ [][NextCompletion]_vars

\* C2: Enrollment.completed_at is monotonic.  No step changes a completed_at
\* that is set, whatever the interleaving of SetValue requests, xAPI ingests,
\* enrolments and player accesses.
CompletedAtMonotonic ==
    [][\A u \in Users, c \in Courses :
         db.enroll[u][c] > 0 => db'.enroll[u][c] = db.enroll[u][c]]_vars

\* C2 witness: the enrollment of u1 in c1 is completed, and both a SetValue
\* of lesson_status "completed" and an xAPI ingest that completed the lesson
\* l5 of c1 have run to their end against it.
CompletedAtMonotonicReached ==
    /\ db.enroll["u1"]["c1"] > 0
    /\ db.lc["u1"]["l5"] # 0
    /\ \E p, q \in Procs :
          /\ proc[p].pc = "done" /\ proc[p].method = "SetValue"
          /\ proc[p].key = K_STATUS /\ proc[p].value = "completed"
          /\ proc[q].pc = "done" /\ proc[q].method = "xapi"
          /\ proc[q].activity = "a3"

\* C14: the SCORM completion path.  The commit of a SetValue sets
\* completed_at, to the time read during the call, on the enrollment of the
\* attempt's user in the course owning the attempt's package when the key is
\* cmi.core.lesson_status, the value is "completed" or "passed" and
\* completed_at is null, and only then: for any other value, any other key,
\* any other user or course and a completed_at already set, it leaves the
\* enrollment as it is.
ScormCompletionPath ==
    [][\A p \in Procs :
         Commits(p) =>
            LET pr == proc[p]
                att == db.attempts[pr.aid]
            IN \A u \in Users, c \in Courses :
                  IF /\ pr.key = K_STATUS /\ pr.value \in {"completed", "passed"}
                     /\ u = att.user /\ CoursePackage(c) = att.scorm_package
                     /\ db.enroll[u][c] = 0
                  THEN db'.enroll[u][c] = now - 1
                  ELSE db'.enroll[u][c] = db.enroll[u][c]
      ]_vars

\* C14 witness: a SetValue of lesson_status "passed" has committed and the
\* enrollment of u1 in c1 is completed, the lesson of c1 being not.
ScormCompletionPathReached ==
    /\ db.enroll["u1"]["c1"] > 0
    /\ db.lc["u1"]["l5"] = 0
    /\ \E p \in Procs :
          /\ proc[p].pc = "done" /\ proc[p].method = "SetValue"
          /\ proc[p].key = K_STATUS /\ proc[p].value = "passed"

\* C15: status domains.  In every state every SCORM attempt and every H5P
\* attempt has a completion_status among not_attempted, incomplete,
\* completed, unknown and a success_status among passed, failed, unknown.
StatusDomains ==
    /\ \A i \in 1..Len(db.attempts) :
          /\ db.attempts[i].completion_status \in
                {"not_attempted", "incomplete", "completed", "unknown"}
          /\ db.attempts[i].success_status \in {"passed", "failed", "unknown"}
    /\ \A u \in Users, a \in Activities :
          db.h5p[u][a].exists =>
             /\ db.h5p[u][a].completion_status \in
                   {"not_attempted", "incomplete", "completed", "unknown"}
             /\ db.h5p[u][a].success_status \in {"passed", "failed", "unknown"}

-----------------------------------------------------------------------------
(* Specification of player access: concurrent scorm_player_view requests   *)
(* and enrolments                                                          *)

InitPlayer ==
    /\ db \in {EmptyDb, [EmptyDb EXCEPT !.enroll["u1"]["c1"] = 0]}
    /\ work = EmptyDb
    /\ lock = 0
    /\ proc = [p \in Procs |-> IdleProc]
    /\ now = 1
    /\ calls = 0
    /\ faults = 0
    /\ lastSet = [a \in AttemptIds |-> [k \in Keys |-> <<>>]]
    /\ auto_enroll \in BOOLEAN
    /\ fs = NoExtraction
    /\ packages = NoPackages

NextPlayer ==
    \/ \E u \in Users, c \in Courses : Enroll(u, c)
    \/ \E p \in Procs, u \in Users, c \in Courses : PlayerStart(p, u, c)
    \/ \E p \in Procs : PlayerGet(p)
    \/ \E p \in Procs : PlayerCreate(p)

SpecPlayer == InitPlayer /\ [][NextPlayer]_vars

\* C16: SCORM attempts are unique per pair.  In every state there is at most
\* one attempt per (user, SCORM package).
AttemptUnique ==
    \A u \in Users : Cardinality(AttemptsOf(db, u, "p1")) <= 1

-----------------------------------------------------------------------------
(* Specification of the xAPI endpoint: requests of every shape, two request *)
(* slots handled concurrently                                               *)

\* The requests: the well-formed one, and each way of being malformed
XapiRequests ==
    {<<h, "object", "object", "absent">> : h \in HttpMethods}
    \cup {<<"POST", b, "object", "absent">> : b \in Bodies}
    \cup {<<"POST", "object", v, "absent">> : v \in Shapes}
    \cup {<<"POST", "object", "object", r>> : r \in Shapes}

\* The verbs sent: completing with a score, completing without, neither
XapiVerbs == {XAPI_COMPLETED, XAPI_CONSUMED, XAPI_INTERACTED}

InitXapi ==
    /\ db \in InitDbs
    /\ work = EmptyDb
    /\ lock = 0
    /\ proc = [p \in Procs |-> IdleProc]
    /\ now = 1
    /\ calls = 0
    /\ faults = 0
    /\ lastSet = [a \in AttemptIds |-> [k \in Keys |-> <<>>]]
    /\ auto_enroll = FALSE
    /\ fs = NoExtraction
    /\ packages = NoPackages

NextXapi ==
    \/ \E p \in Procs, a \in {"a1", "a2"}, r \in XapiRequests :
         XapiRequest(p, "u1", a, r[1], r[2], r[3], r[4])
    \/ \E p \in Procs, v \in XapiVerbs :
         \E sc \in ScoresOf(proc[p].result) : H5PStatement(p, v, "absent", sc)
    \/ \E p \in Procs : H5PUpdate(p)
    \/ \E p \in Procs : HEnrolled(p)
    \/ \E p \in Procs : HLesson(p)
    \/ \E p \in Procs : HLessonCreate(p)
    \/ \E p \in Procs : HCourse(p)
    \/ \E p \in Procs : HCourseUpdate(p)

SpecXapi == InitXapi /\ [][NextXapi]_vars

\* The statement of the slot's ingest is in the statement log
Logged(p) == proc[p].method = "xapi" /\ proc[p].pc \notin {"idle", "h_stmt"}
             /\ proc[p].verb # ""

\* C17: the statement log and the attempt change together.  In every state of
\* the store, a logged statement with a completing verb goes with a completed
\* attempt: neither while the call runs nor after it failed is the statement
\* there without the update.
IngestAtomic ==
    \A p \in Procs :
        (Logged(p) /\ TriggersCompletion(proc[p].verb, "absent"))
            => db.h5p[proc[p].user][proc[p].activity].completion_status = "completed"

\* The request of the slot is malformed: body not JSON or not an object, verb
\* missing, null or not an object, result present and not an object
Malformed(pr) ==
    \/ pr.body # "object"
    \/ pr.vshape # "object"
    \/ pr.result \in {"null", "scalar"}

\* C18: malformed xAPI rejection.  A step that takes in a malformed POST
\* answers 400 and leaves every table as it was.
MalformedRejected ==
    [][\A p \in Procs :
         (proc[p].pc \in {"idle", "done", "raised"} /\ proc'[p] # proc[p]
          /\ proc'[p].http = "POST" /\ Malformed(proc'[p]))
            => (proc'[p].pc = "done" /\ proc'[p].reply = "400" /\ db' = db)]_vars

-----------------------------------------------------------------------------
(* Specification of the RTE endpoint's dispatch: requests of every shape on *)
(* the caller's own attempt                                                 *)

\* The requests <<HTTP method, body, method name, number of parameters>>
ApiRequests ==
    {<<h, "object", "Initialize", 0>> : h \in HttpMethods}
    \cup {<<"POST", b, "Initialize", 0>> : b \in Bodies}
    \cup {<<"POST", "object", m, n>> : m \in ApiMethods, n \in {0, 1}}

\* The stores: a fresh attempt of u1, or that attempt after the SetValue
\* calls score.raw = "85", score.max = "page5", lesson_location = "page5"
ApiDbs ==
    LET fresh == [EmptyDb EXCEPT !.enroll["u1"]["c1"] = 0,
                                 !.attempts = <<NewAttempt("u1", "p1")>>]
    IN {fresh,
        [fresh EXCEPT !.attempts[1].score_raw = float("85"),
                      !.attempts[1].location = "page5",
                      !.data[1][K_RAW] = <<"85">>,
                      !.data[1][K_MAX] = <<"page5">>,
                      !.data[1][K_LOCATION] = <<"page5">>]}

InitApi ==
    /\ db \in ApiDbs
    /\ work = EmptyDb
    /\ lock = 0
    /\ proc = [p \in Procs |-> IdleProc]
    /\ now = 1
    /\ calls = 0
    /\ faults = 0
    /\ lastSet = db.data
    /\ auto_enroll = FALSE
    /\ fs = NoExtraction
    /\ packages = NoPackages

NextApi ==
    \/ \E p \in Procs, r \in ApiRequests, k \in Keys :
         ApiRequest(p, "u1", 1, r[1], r[2], r[3], r[4], k, "")
    \/ \E p \in Procs : GetValue(p)

SpecApi == InitApi /\ [][NextApi]_vars

\* The request is one of the erroneous ones: not a POST, body not JSON or
\* not an object, method missing or unknown, SetValue with too few parameters
Erroneous(pr) ==
    \/ pr.http # "POST"
    \/ pr.body # "object"
    \/ pr.method \in {"absent", "Unknown"}
    \/ pr.method = "SetValue" /\ pr.nparams < 2

\* C19: RTE errors stay inside the protocol.  Every erroneous request on the
\* caller's own attempt is answered {result: 'false', errorCode: '201'} and
\* never ends in an unhandled fault.
ErrorsInProtocol ==
    \A p \in Procs :
        (proc[p].http # "" /\ Erroneous(proc[p]))
            => (proc[p].pc = "done" /\ proc[p].reply = "false" /\ proc[p].code = "201")

\* C21: a LessonCompletion is created once.  The table holds one row per
\* (user, lesson), the unique_together of the model, and no step changes the
\* completed_at of a row that exists, whether ingests run one after the other
\* or together.
LessonCompletionOnce ==
    [][\A u \in Users, l \in Lessons :
          db.lc[u][l] # 0 => db'.lc[u][l] = db.lc[u][l]]_vars

\* C21 witness: two ingests of completed statements of the enrolled u1 for
\* a2, handled together, have both ended their propagation; the clock has
\* moved on and the LessonCompletion of l7 carries the time of its creation.
LessonCompletionOnceReached ==
    /\ \A p \in Procs : /\ proc[p].pc = "done" /\ proc[p].verb = XAPI_COMPLETED
                        /\ proc[p].activity = "a2" /\ proc[p].enrolled # {}
    /\ db.stmts["u1"]["a2"] = 2
    /\ db.lc["u1"]["l7"] = 1
    /\ now > 1

-----------------------------------------------------------------------------
(* Content packages: SCORMPackage.save, H5PActivity.save, deletion and the  *)
(* cleanup deferred to the commit of the enclosing transaction              *)

MaxOps == 4

\* The rows a statement of the current operation reads
Cur(p) == IF p.tx THEN p.wrow ELSE p.row

\* super().save() / delete(): the row is written in the open transaction, or
\* committed at once in autocommit
WriteRow(p, k, r) ==
    IF p.tx THEN [p EXCEPT !.wrow[k] = r] ELSE [p EXCEPT !.row[k] = r]

\* _cleanup: default_storage.delete of the archive, _delete_extracted_content
\* of the directory
RunCleanup(files, cb) ==
    [loc \in Locs |->
        IF /\ loc[1] = cb.kind
           /\ \/ cb.archive # "" /\ loc[2] = "zip" /\ loc[3] = cb.archive
              \/ cb.dir # "" /\ loc[2] = cb.dir
        THEN 0 ELSE files[loc]]

\* on_commit running the callback when it is registered
on_commit_at_once(p, cb) == [p EXCEPT !.files = RunCleanup(p.files, cb)]

\* transaction.on_commit: the callback is kept until the commit of the
\* enclosing transaction; without one it runs at once
on_commit(p, cb) ==
    IF p.tx THEN [p EXCEPT !.cbs = Append(@, cb)]
    ELSE [p EXCEPT !.files = RunCleanup(p.files, cb)]

\* The files upload u extracts into directory dir of kind k
Extracted(files, k, dir, u) ==
    [loc \in Locs |->
        IF loc[1] = k /\ loc[2] = dir /\ loc[3] \in StoredNames(u) THEN u ELSE files[loc]]

\* _cleanup_stale_same_path_files_after_reextract: the names listed before
\* the extraction minus the paths built from member.filename
stale_paths(old_file_paths, extracted_file_paths) ==
    old_file_paths \ extracted_file_paths

\* H5PActivity.save with upload u (0: no new file); fail: extract_package
\* raises on its first member
h5p_save(p, u, fail) ==
    LET old == Cur(p)["h5p"]
        new_name == IF u = 0 THEN old.file ELSE ArchiveName(p.overwrite, u)
        replaced == old.exists /\ old.file # "" /\ u # 0
        should_extract == new_name # "" /\ (replaced \/ old.path = "")
        upl == IF u = 0 THEN old.upload ELSE u
        files1 == IF u # 0 THEN [p.files EXCEPT ![<<"h5p", "zip", new_name>>] = u]
                  ELSE p.files
        row1 == [exists |-> TRUE, file |-> new_name, path |-> old.path,
                 upload |-> upl, extracted |-> old.extracted]
        p1 == WriteRow([p EXCEPT !.files = files1], "h5p", row1)
        dir == new_name
        same_path == replaced /\ old.path # "" /\ dir = old.path
        existing == IF same_path
                    THEN {m \in MemberNames : files1[<<"h5p", dir, m>>] # 0} ELSE {}
        files2 == Extracted(files1, "h5p", dir, upl)
        files3 == [loc \in Locs |->
                     IF loc[1] = "h5p" /\ loc[2] = dir
                          /\ loc[3] \in stale_paths(existing, Members(upl))
                     THEN 0 ELSE files2[loc]]
        row2 == [row1 EXCEPT !.path = dir, !.extracted = upl]
        p2 == WriteRow([p1 EXCEPT !.files = files3], "h5p", row2)
        cb == [kind |-> "h5p",
               archive |-> IF old.file # new_name THEN old.file ELSE "",
               dir |-> IF old.path # dir THEN old.path ELSE ""]
    IN IF ~should_extract THEN p1
       ELSE IF fail THEN [p1 EXCEPT !.broken = p.tx]
       ELSE IF replaced THEN on_commit(p2, cb)
       ELSE p2

\* SCORMPackage.save with upload u (0: no new file); fail: extract_package
\* raises on its first member
scorm_save(p, u, fail) ==
    LET old == Cur(p)["scorm"]
        new_name == IF u = 0 THEN old.file ELSE ArchiveName(p.overwrite, u)
        upl == IF u = 0 THEN old.upload ELSE u
        files1 == IF u # 0 THEN [p.files EXCEPT ![<<"scorm", "zip", new_name>>] = u]
                  ELSE p.files
        row1 == [exists |-> TRUE, file |-> new_name, path |-> old.path,
                 upload |-> upl, extracted |-> old.extracted]
        p1 == WriteRow([p EXCEPT !.files = files1], "scorm", row1)
        dir == new_name
        row2 == [row1 EXCEPT !.path = dir, !.extracted = upl]
        p2 == WriteRow([p1 EXCEPT !.files = Extracted(files1, "scorm", dir, upl)],
                       "scorm", row2)
    IN IF ~(new_name # "" /\ old.path = "") THEN p1
       ELSE IF fail THEN [p1 EXCEPT !.broken = p.tx]
       ELSE p2

\* Model.delete() and the post_delete handler of the kind
delete_package(p, k) ==
    LET old == Cur(p)[k]
    IN on_commit(WriteRow(p, k, NoRow),
                 [kind |-> k, archive |-> old.file, dir |-> old.path])

\* The callbacks of the list, run in order
RECURSIVE RunAll(_, _)
RunAll(files, cbs) ==
    IF cbs = <<>> THEN files ELSE RunAll(RunCleanup(files, Head(cbs)), Tail(cbs))

\* transaction.atomic() is entered
PkgBegin ==
    /\ ~packages.tx
    /\ packages.ops < MaxOps
    /\ packages' = [packages EXCEPT !.tx = TRUE, !.wrow = packages.row, !.cbs = <<>>,
                          !.ops = @ + 1, !.last = "begin"]
    /\ UNCHANGED <<db, work, lock, proc, now, calls, faults, lastSet, auto_enroll, fs>>

\* A package is saved: created, replaced by a new upload, or saved again
PkgSave(k, u, fail) ==
    /\ ~packages.broken
    /\ packages.ops < MaxOps
    /\ u = 0 => Cur(packages)[k].exists
    /\ packages' = [(IF k = "h5p" THEN h5p_save(packages, u, fail) ELSE scorm_save(packages, u, fail))
                  EXCEPT !.ops = @ + 1, !.last = "save"]
    /\ UNCHANGED <<db, work, lock, proc, now, calls, faults, lastSet, auto_enroll, fs>>

\* A package is deleted
PkgDelete(k) ==
    /\ ~packages.broken
    /\ packages.ops < MaxOps
    /\ Cur(packages)[k].exists
    /\ packages' = [delete_package(packages, k) EXCEPT !.ops = @ + 1, !.last = "delete"]
    /\ UNCHANGED <<db, work, lock, proc, now, calls, faults, lastSet, auto_enroll, fs>>

\* The atomic block is left normally: the rows are committed, then the
\* on_commit callbacks run
PkgCommit ==
    /\ packages.tx /\ ~packages.broken
    /\ packages' = [packages EXCEPT !.tx = FALSE, !.row = packages.wrow,
                          !.files = RunAll(packages.files, packages.cbs), !.cbs = <<>>,
                          !.last = "commit"]
    /\ UNCHANGED <<db, work, lock, proc, now, calls, faults, lastSet, auto_enroll, fs>>

\* The atomic block is left by an exception: the rows and the callbacks of
\* the transaction are discarded
PkgRollback ==
    /\ packages.tx
    /\ packages' = [packages EXCEPT !.tx = FALSE, !.broken = FALSE, !.wrow = packages.row,
                          !.cbs = <<>>, !.last = "rollback"]
    /\ UNCHANGED <<db, work, lock, proc, now, calls, faults, lastSet, auto_enroll, fs>>

\* A package of each kind uploaded and extracted from upload 1
Uploaded(overwrite) ==
    LET n == ArchiveName(overwrite, 1)
        r == [exists |-> TRUE, file |-> n, path |-> n, upload |-> 1, extracted |-> 1]
    IN [NoPackages EXCEPT
          !.overwrite = overwrite,
          !.row = [k \in Kinds |-> r], !.wrow = [k \in Kinds |-> r],
          !.files = [loc \in Locs |->
                       IF loc[2] = "zip" /\ loc[3] = n THEN 1
                       ELSE IF loc[2] = n /\ loc[3] \in StoredNames(1) THEN 1 ELSE 0]]

InitPackages ==
    /\ db = EmptyDb
    /\ work = EmptyDb
    /\ lock = 0
    /\ proc = [p \in Procs |-> IdleProc]
    /\ now = 1
    /\ calls = 0
    /\ faults = 0
    /\ lastSet = [a \in AttemptIds |-> [k \in Keys |-> <<>>]]
    /\ auto_enroll = FALSE
    /\ fs = NoExtraction
    /\ packages \in {[NoPackages EXCEPT !.overwrite = o] : o \in BOOLEAN}
               \cup {Uploaded(o) : o \in BOOLEAN}

NextPackages ==
    \/ PkgBegin
    \/ \E k \in Kinds, u \in {0} \cup Uploads, fail \in BOOLEAN : PkgSave(k, u, fail)
    \/ \E k \in Kinds : PkgDelete(k)
    \/ PkgCommit
    \/ PkgRollback

SpecPackages == InitPackages /\ [][NextPackages]_vars

\* The files of the package row r of kind k are the same in both storages
SameFiles(k, r, f, g) ==
    /\ r.file # "" => g[<<k, "zip", r.file>>] = f[<<k, "zip", r.file>>]
    /\ r.path # "" => \A m \in MemberNames : g[<<k, r.path, m>>] = f[<<k, r.path, m>>]

\* C23: a rolled-back H5P package replacement never loses the original.
\* While a transaction is open, and through its rollback, no step deletes or
\* overwrites the archive or an extracted file of the committed H5P package,
\* which is the package a rollback returns to.
ReplacementKeepsOriginal ==
    [][(packages.tx /\ packages'.last # "commit" /\ packages.row["h5p"].exists)
          => SameFiles("h5p", packages.row["h5p"], packages.files, packages'.files)]_vars

\* C24: deletion cleanup is commit-deferred.  Deleting a package inside a
\* transaction removes no file; a rollback removes no file; the commit
\* removes the archive and the extracted tree of every package deleted in the
\* transaction.
DeletionDeferred ==
    [][/\ (packages.tx /\ packages'.last = "delete" /\ packages'.ops # packages.ops)
            => packages'.files = packages.files
       /\ (packages.tx /\ ~packages'.tx /\ packages'.last = "rollback")
            => /\ packages'.files = packages.files
               /\ packages'.row = packages.row
       /\ (packages.tx /\ ~packages'.tx /\ packages'.last = "commit")
            => \A i \in 1..Len(packages.cbs) :
                 LET cb == packages.cbs[i]
                 IN /\ cb.archive # "" => packages'.files[<<cb.kind, "zip", cb.archive>>] = 0
                    /\ cb.dir # "" => \A m \in MemberNames :
                                         packages'.files[<<cb.kind, cb.dir, m>>] = 0
      ]_vars

\* C24 witness: the SCORM package has been deleted inside a transaction that
\* is still open; its archive and its extracted files are all in storage
\* and the cleanup waits in the on_commit list.
DeletionDeferredReached ==
    /\ packages.tx /\ packages.last = "delete"
    /\ packages.row["scorm"].exists /\ ~packages.wrow["scorm"].exists
    /\ packages.files[<<"scorm", "zip", packages.row["scorm"].file>>] # 0
    /\ \A m \in Members(1) : packages.files[<<"scorm", packages.row["scorm"].path, m>>] # 0
    /\ Len(packages.cbs) = 1

\* C25: for every package in every persisted state, extracted_path is
\* non-empty if and only if extraction has completed for the archive that
\* package_file holds.
ExtractedPathIffExtracted ==
    \A k \in Kinds :
        packages.row[k].exists
          => (packages.row[k].path # ""
                <=> packages.row[k].extracted = packages.row[k].upload)

-----------------------------------------------------------------------------
(* Content serving: ServeScormContentView.get                               *)

\* normalize_content_path: the normalized path
normalize_content_path(path) == normpath(replace_backslash(path))

\* rejects_content_path without the test for a leading ".."
rejects_content_path_no_dotdot(n) ==
    \/ ~n.abs /\ n.comps = <<>>
    \/ n.abs

\* normalize_content_path: the paths that raise Http404
rejects_content_path(n) ==
    \/ ~n.abs /\ n.comps = <<>>
    \/ n.abs
    \/ ~n.abs /\ n.comps # <<>> /\ n.comps[1] = DOTDOT

\* get_storage_path: posixpath.join(content_base, normalized)
get_storage_path(n) == <<ROOT>> \o n.comps

\* apply_security_headers
SecurityHeaders == {"X-Frame-Options: SAMEORIGIN", "Content-Security-Policy: frame-ancestors 'self'"}

\* apply_cache_header, for a cache rule that matches
CacheHeaders == {"Cache-Control"}

\* default_storage.open succeeds: the location is a file of the storage
IsFile(loc) == [loc |-> loc, renamed |-> FALSE] \in fs.files

\* ServeScormContentView.get for a requested path; media: the guessed
\* content type is audio/* or video/*; redirect: WAGTAIL_LMS_REDIRECT_MEDIA
Serve(p, path, media, redirect) ==
    /\ proc[p].pc \in {"idle", "done", "raised"}
    /\ calls < MaxCalls
    /\ LET n == normalize_content_path(path)
           loc == location(get_storage_path(n))
           pr == [IdleProc EXCEPT !.pc = "done", !.method = "serve", !.path = path,
                                  !.key = IF media THEN "media" ELSE "other",
                                  !.value = IF redirect THEN "redirect" ELSE "proxy"]
       IN proc' = [proc EXCEPT ![p] =
             IF rejects_content_path(n)
             THEN [pr EXCEPT !.reply = "404"]
             ELSE IF redirect /\ media
             THEN [pr EXCEPT !.reply = "302", !.headers = CacheHeaders]
             ELSE IF IsFile(loc)
             THEN [pr EXCEPT !.reply = "200", !.touched = TRUE, !.opened = loc,
                             !.headers = SecurityHeaders \cup CacheHeaders]
             ELSE [pr EXCEPT !.reply = "404", !.touched = TRUE, !.opened = loc]]
    /\ calls' = calls + 1
    /\ UNCHANGED <<db, work, lock, now, faults, lastSet, auto_enroll, fs, packages>>

\* The storage holds the file a/a under the content root
InitServe ==
    /\ db = EmptyDb
    /\ work = EmptyDb
    /\ lock = 0
    /\ proc = [p \in Procs |-> IdleProc]
    /\ now = 1
    /\ calls = 0
    /\ faults = 0
    /\ lastSet = [a \in AttemptIds |-> [k \in Keys |-> <<>>]]
    /\ auto_enroll = FALSE
    /\ fs = [NoExtraction EXCEPT !.files =
                {[loc |-> [abs |-> FALSE, comps |-> <<ROOT, <<"a">>, <<"a">>>>],
                  renamed |-> FALSE]}]
    /\ packages = NoPackages

NextServe ==
    \E path \in Names, media \in BOOLEAN, redirect \in BOOLEAN :
        Serve(1, path, media, redirect)

SpecServe == InitServe /\ [][NextServe]_vars

\* The location is below the content root
UnderRoot(loc) ==
    /\ ~loc.abs
    /\ Len(loc.comps) > 1
    /\ loc.comps[1] = ROOT
    /\ \A i \in 1..Len(loc.comps) : loc.comps[i] # DOTDOT

\* C26: content serving rejects unsafe paths.  A requested path that, after
\* "\" is replaced by "/" and the path is normalized, is empty, ".", starts
\* with "/" or starts with ".." gets the 404 a missing file gets and the
\* storage is not opened for it; every location the storage is opened at is
\* under the content root.
ServeRejectsUnsafe ==
    \A p \in Procs :
        proc[p].method = "serve" =>
            LET n == normpath(replace_backslash(proc[p].path))
            IN /\ (n.abs \/ n.comps = <<>> \/ n.comps[1] = DOTDOT)
                    => (proc[p].reply = "404" /\ ~proc[p].touched /\ proc[p].headers = {})
               /\ proc[p].touched => UnderRoot(proc[p].opened)
               /\ (proc[p].touched /\ ~IsFile(proc[p].opened)) => proc[p].reply = "404"

\* C26 witness: the path a\..\..\a/a, whose normal form ../a/a climbs out of
\* the root, has been answered 404 without the storage being opened.
ServeRejectsUnsafeReached ==
    /\ proc[1].method = "serve"
    /\ proc[1].path = <<<<"a", "..">>, <<"..">>, <<"a">>>> \/ proc[1].path = <<<<"..", "a">>, <<"a">>>>
    /\ proc[1].reply = "404" /\ ~proc[1].touched

\* C27: every successful response of the content-serving endpoint, proxied
\* or redirected, carries X-Frame-Options: SAMEORIGIN and
\* Content-Security-Policy: frame-ancestors 'self'.
ServeSecurityHeaders ==
    \A p \in Procs :
        (proc[p].method = "serve" /\ proc[p].reply \in {"200", "302"})
            => SecurityHeaders \subseteq proc[p].headers

\* The default GetValue synthesizes from the attempt for a key of the claim
DefaultValue(att, k) ==
    CASE k = K_STATUS -> att.completion_status
      [] k = K_STUDENT_ID -> IF att.user = "u1" THEN "1" ELSE "2"
      [] k = K_LOCATION -> att.location
      [] k = K_SUSPEND -> att.suspend_data
      [] k = K_RAW -> IF att.score_raw = <<>> THEN "" ELSE strfloat(att.score_raw)
      [] k = K_MAX -> IF att.score_max = <<>> THEN "" ELSE strfloat(att.score_max)
      [] k = K_MIN -> IF att.score_min = <<>> THEN "" ELSE strfloat(att.score_min)
      [] OTHER -> ""

\* C28: GetValue(k) replies the stored data point of (attempt, k) when there
\* is one, even when the promoted field reads otherwise, and else the
\* default: completion_status, the string of the user's id, location,
\* suspend_data, the string of the score field or "" when it is null, and ""
\* for a key outside the fixed set.
GetValueDefaults ==
    [][\A p \in Procs :
         (/\ proc[p].method = "GetValue" /\ proc[p].pc = "call" /\ proc'[p].pc = "done"
          /\ proc[p].key # K_CREDIT)
            => proc'[p].reply =
                 IF db.data[proc[p].aid][proc[p].key] # <<>>
                 THEN db.data[proc[p].aid][proc[p].key][1]
                 ELSE DefaultValue(db.attempts[proc[p].aid], proc[p].key)]_vars

\* C28 witness: one GetValue has replied the stored "85" of score.raw, whose
\* field reads "85.0", the other the id "1" of the user for student_id.
GetValueDefaultsReached ==
    /\ proc[1].method = "GetValue" /\ proc[1].pc = "done"
    /\ proc[1].key = K_RAW /\ proc[1].reply = "85"
    /\ strfloat(db.attempts[1].score_raw) = "85.0"
    /\ proc[2].method = "GetValue" /\ proc[2].pc = "done"
    /\ proc[2].key = K_STUDENT_ID /\ proc[2].reply = "1"

-----------------------------------------------------------------------------
(* SetValue on the score keys, with values that parse, that do not, and   *)
(* that are no strings                                                     *)

ScoreKeys == {K_RAW, K_MAX, K_MIN}

\* The SetValue calls: every score key with a number, a string that is no
\* number, and a JSON null
ScoreInputs == {<<k, v>> : k \in ScoreKeys, v \in {"85", "page5", JsonNull}}

\* The stores: the attempt of u1 fresh, or with its three scores set
ScoreDbs ==
    LET fresh == [EmptyDb EXCEPT !.enroll["u1"]["c1"] = 0,
                                 !.attempts = <<NewAttempt("u1", "p1")>>]
    IN {fresh,
        [fresh EXCEPT !.attempts[1].score_raw = float("85"),
                      !.attempts[1].score_max = float("85"),
                      !.attempts[1].score_min = float("85"),
                      !.data[1][K_RAW] = <<"85">>,
                      !.data[1][K_MAX] = <<"85">>,
                      !.data[1][K_MIN] = <<"85">>]}

InitScore ==
    /\ db \in ScoreDbs
    /\ work = EmptyDb
    /\ lock = 0
    /\ proc = [p \in Procs |-> IdleProc]
    /\ now = 1
    /\ calls = 0
    /\ faults = 0
    /\ lastSet = db.data
    /\ auto_enroll = FALSE
    /\ fs = NoExtraction
    /\ packages = NoPackages

NextScore ==
    \/ \E p \in Procs, kv \in ScoreInputs :
          StartRequest(p, "u1", 1, "SetValue", kv[1], kv[2])
    \/ \E p \in Procs : SetValueEnter(p)
    \/ \E p \in Procs : Save(p)
    \/ \E p \in Procs : UocGet(p)
    \/ \E p \in Procs : UocWrite(p)
    \/ \E p \in Procs : Commit(p)
    \/ \E p \in Procs : Fail(p, "locked")
    \/ \E p \in Procs : Except(p)
    \/ \E p \in Procs : Sleep(p)

SpecScore == InitScore /\ [][NextScore]_vars

\* The score field of an attempt a score key is promoted to
ScoreField(att, key) ==
    CASE key = K_RAW -> att.score_raw
      [] key = K_MAX -> att.score_max
      [] key = K_MIN -> att.score_min

\* The slot's call is a SetValue of a score key whose value gives no number
UnparsableScore(pr) ==
    pr.method = "SetValue" /\ pr.key \in ScoreKeys /\ float(pr.value) = <<>>

\* C29: an unparsable score is ignored.  A SetValue of cmi.core.score.raw,
\* .max or .min whose value is no number, unless it gives up on a locked
\* database, ends with result 'true', the attempt's score field as it was and
\* the value stored as the data point of the key.
UnparsableScoreIgnored ==
    [][\A p \in Procs :
         (/\ UnparsableScore(proc[p])
          /\ proc[p].pc \notin {"done", "raised"}
          /\ proc'[p].pc \in {"done", "raised"}
          /\ proc'[p].err # "locked")
            => /\ proc'[p].pc = "done"
               /\ proc'[p].reply = "true"
               /\ ScoreField(db'.attempts[proc[p].aid], proc[p].key)
                    = ScoreField(db.attempts[proc[p].aid], proc[p].key)
               /\ db'.data[proc[p].aid][proc[p].key] = <<proc[p].value>>]_vars

-----------------------------------------------------------------------------
(* Scores of xAPI statements, ingested one after the other                 *)

\* The scores the statements carry
XapiScores == {"absent", "85", "mixed"}

NextXapiScore ==
    \/ \E a \in {"a1", "a2"} : Quiet /\ H5PStart(1, "u1", a)
    \/ \E v \in Verbs, sc \in XapiScores : H5PStatement(1, v, "absent", sc)
    \/ H5PUpdate(1)
    \/ HEnrolled(1)
    \/ HLesson(1)
    \/ HLessonCreate(1)
    \/ HCourse(1)
    \/ HCourseUpdate(1)

SpecXapiScore == InitH5P /\ [][NextXapiScore]_vars

\* The score field of an H5P attempt a key of result.score is copied to
H5PScoreField(att, k) ==
    CASE k = "raw" -> att.score_raw
      [] k = "max" -> att.score_max
      [] k = "min" -> att.score_min
      [] k = "scaled" -> att.score_scaled

\* The verbs of the mapping table
MappingVerbs ==
    {XAPI_COMPLETED, XAPI_PASSED, XAPI_MASTERED, XAPI_FAILED, XAPI_CONSUMED,
     XAPI_ANSWERED}

\* C30: the xAPI score update.  When a statement whose verb is scored or a
\* verb of the mapping table has been ingested, every key of result.score
\* that is present and parses is in the attempt's score field, every other
\* field is as it was, and the ingest has not failed.
XapiScoreCopied ==
    [][(/\ proc[1].pc = "h_update"
        /\ proc[1].verb \in MappingVerbs \cup {XAPI_SCORED}
        /\ proc'[1] # proc[1])
          => /\ proc'[1].pc # "raised"
             /\ \A k \in ScoreNames :
                  LET v == ScoreDict(proc[1].score)[k]
                      new == H5PScoreField(db'.h5p[proc[1].user][proc[1].activity], k)
                      old == H5PScoreField(db.h5p[proc[1].user][proc[1].activity], k)
                  IN IF v # "absent" /\ float(v) # <<>>
                     THEN new = float(v) ELSE new = old]_vars

-----------------------------------------------------------------------------
(* H5P content user data: h5p_content_user_data_view                       *)

H5P_MAX_USER_DATA_BYTES == 65536

\* The query parameter subContentId as sent, and int() of it: <<n>>, or <<>>
\* for ValueError
SubContentRaw == {"absent", "1", "-1", "x"}

parse_sub_content_id(raw) ==
    CASE raw = "absent" -> <<0>>
      [] raw = "1" -> <<1>>
      [] raw = "-1" -> <<-1>>
      [] OTHER -> <<>>

\* The form field data as sent: absent, the clearing "0", two short values,
\* a value of exactly 64 KiB and one of a byte more
RawData == {"absent", "0", "s1", "s2", "max", "big"}

\* len(raw_data.encode("utf-8"))
nbytes(raw) ==
    CASE raw = "max" -> H5P_MAX_USER_DATA_BYTES
      [] raw = "big" -> H5P_MAX_USER_DATA_BYTES + 1
      [] raw = "0" -> 1
      [] OTHER -> 2

\* h5p_content_user_data_view and _parse_h5p_user_data_params: the answer
\* given before the store is read or written, or the branch taken
user_data_dispatch(http, dt, sub, raw) ==
    IF http \notin {"GET", "POST"} THEN "405"
    ELSE IF dt = "" THEN "400"
    ELSE IF parse_sub_content_id(sub) = <<>> THEN "400"
    ELSE IF parse_sub_content_id(sub)[1] < 0 THEN "400"
    ELSE IF http = "GET" THEN "get"
    ELSE IF raw = "absent" THEN "400"
    ELSE IF raw # "0" /\ nbytes(raw) > H5P_MAX_USER_DATA_BYTES THEN "413"
    ELSE "store"

\* _h5p_user_data_get_response: <<>> is the JSON false
h5p_user_data_get_response(d, u, a, dt, sid) ==
    IF ~d.h5p[u][a].exists THEN <<>>
    ELSE IF d.udata[u][a][dt][sid] = <<>> THEN <<>>
    ELSE <<d.udata[u][a][dt][sid][1]>>

\* h5p_content_user_data_view up to the answer of a refused request or of a
\* GET, or to the call of _store_h5p_user_data
UserDataRequest(p, u, a, http, dt, sub, raw) ==
    /\ proc[p].pc \in {"idle", "done", "raised"}
    /\ calls < MaxCalls
    /\ LET out == user_data_dispatch(http, dt, sub, raw)
           sid == IF out \in {"get", "store", "413"}
                  THEN parse_sub_content_id(sub)[1] ELSE 0
           pr == [IdleProc EXCEPT !.method = "user_data", !.user = u,
                                  !.activity = a, !.http = http, !.data_type = dt,
                                  !.sub_content_id = sid, !.raw_data = raw]
       IN proc' = [proc EXCEPT ![p] =
             CASE out = "get" ->
                    [pr EXCEPT !.pc = "done", !.code = "200",
                               !.data = h5p_user_data_get_response(db, u, a, dt, sid)]
               [] out = "store" -> [pr EXCEPT !.pc = "ud_attempt"]
               [] OTHER -> [pr EXCEPT !.pc = "done", !.code = out]]
    /\ calls' = calls + 1
    /\ UNCHANGED <<db, work, lock, now, faults, lastSet, auto_enroll, fs, packages>>

\* _store_h5p_user_data: H5PAttempt.objects.get_or_create(user, activity)
UserDataAttempt(p) ==
    /\ proc[p].pc = "ud_attempt"
    /\ LET u == proc[p].user
           a == proc[p].activity
           row == IF db.h5p[u][a].exists THEN db.h5p[u][a] ELSE NewH5PAttempt
       IN /\ AutoWrite([db EXCEPT !.h5p[u][a] = row])
          /\ proc' = [proc EXCEPT ![p].pc = "ud_write", ![p].hmem = row]
    /\ UNCHANGED <<now, calls, faults, lastSet, auto_enroll, fs, packages>>

\* store_rows adding a row whether or not the triple has one
store_rows_create(rows, raw) ==
    IF raw = "0" THEN <<>> ELSE Append(rows, raw)

\* _store_h5p_user_data: the rows of the triple after filter(...).delete() or
\* update_or_create(..., defaults={"value": raw_data})
store_rows(rows, raw) ==
    IF raw = "0" THEN <<>>
    ELSE IF rows = <<>> THEN <<raw>>
    ELSE [rows EXCEPT ![1] = raw]

\* _store_h5p_user_data: the delete or the update_or_create
UserDataWrite(p) ==
    /\ proc[p].pc = "ud_write"
    /\ LET pr == proc[p]
       IN AutoWrite([db EXCEPT
              !.udata[pr.user][pr.activity][pr.data_type][pr.sub_content_id] =
                  store_rows(@, pr.raw_data)])
    /\ proc' = [proc EXCEPT ![p].pc = "ud_save"]
    /\ UNCHANGED <<now, calls, faults, lastSet, auto_enroll, fs, packages>>

\* save_update_fields writing every field of the in-memory attempt
save_all_fields(row, mem) == mem

\* attempt.save(update_fields=["last_accessed"]): only last_accessed is
\* written, a column the rows of the model leave out
save_update_fields(row, mem) == row

\* _store_h5p_user_data: attempt.save(update_fields=["last_accessed"]), then
\* the answer {"success": true}
UserDataSave(p) ==
    /\ proc[p].pc = "ud_save"
    /\ LET pr == proc[p]
       IN AutoWrite([db EXCEPT !.h5p[pr.user][pr.activity] =
                        save_update_fields(@, pr.hmem)])
    /\ proc' = [proc EXCEPT ![p].pc = "done", ![p].code = "200"]
    /\ UNCHANGED <<now, calls, faults, lastSet, auto_enroll, fs, packages>>

\* The requests <<HTTP method, dataType, subContentId, data>>: every data
\* on the two triples, GETs of them, and the refused shapes
UserDataRequests ==
    {<<"POST", "state", sub, raw>> : sub \in {"absent", "1"}, raw \in RawData}
    \cup {<<"GET", "state", sub, "absent">> : sub \in {"absent", "1"}}
    \cup {<<"PUT", "state", "absent", "s1">>, <<"POST", "", "absent", "s1">>,
          <<"POST", "state", "-1", "s1">>, <<"POST", "state", "x", "s1">>}

NextUserData ==
    \/ \E p \in Procs, r \in UserDataRequests :
         UserDataRequest(p, "u1", "a1", r[1], r[2], r[3], r[4])
    \/ \E p \in Procs : UserDataAttempt(p)
    \/ \E p \in Procs : UserDataWrite(p)
    \/ \E p \in Procs : UserDataSave(p)

SpecUserData == InitH5P /\ [][NextUserData]_vars

\* The rows of the triple the slot's request names
UserDataRows(d, pr) == d.udata[pr.user][pr.activity][pr.data_type][pr.sub_content_id]

\* C31: the content-user-data store.  A POST of data other than "0" of at
\* most 64 KiB leaves the value as the row of its triple and a POST of "0"
\* leaves the triple without row; a GET answers the value of the row of its
\* triple, or false when there is none; a POST of more than 64 KiB is
\* answered 413 and changes nothing; no triple ever has two rows.
UserDataStore ==
    [][/\ \A p \in Procs :
            (proc[p].pc = "ud_write" /\ proc'[p].pc = "ud_save")
              => /\ nbytes(proc[p].raw_data) <= H5P_MAX_USER_DATA_BYTES
                 /\ UserDataRows(db', proc[p])
                      = IF proc[p].raw_data = "0" THEN <<>> ELSE <<proc[p].raw_data>>
       /\ \A p \in Procs :
            (proc'[p] # proc[p] /\ proc'[p].method = "user_data"
               /\ proc'[p].http = "GET" /\ proc'[p].code = "200")
              => proc'[p].data = UserDataRows(db, proc'[p])
       /\ \A p \in Procs :
            (proc'[p] # proc[p] /\ proc'[p].method = "user_data"
               /\ proc'[p].raw_data = "big" /\ proc'[p].http = "POST"
               /\ proc'[p].data_type \in DataTypes)
              => (proc'[p].pc = "done" /\ proc'[p].code = "413" /\ db' = db)
       /\ \A u \in Users, a \in Activities, dt \in DataTypes, sid \in SubContentIds :
            Len(db'.udata[u][a][dt][sid]) <= 1]_vars

\* A value of exactly 64 KiB has been stored and read back, a larger one has
\* been refused
UserDataStoreReached ==
    /\ proc[1].method = "user_data" /\ proc[1].http = "GET" /\ proc[1].pc = "done"
    /\ proc[1].data = <<"max">>
    /\ proc[2].raw_data = "big" /\ proc[2].code = "413"
    /\ db.udata["u1"]["a1"]["state"][0] = <<"max">>

-----------------------------------------------------------------------------
(* Where extraction writes an accepted entry                               *)

\* The entry is accepted: no directory, and its normalized name passes the
\* traversal test
Accepted(name) ==
    ~is_dir(name) /\ ~suspicious(normpath(replace_backslash(name)))

\* {content_root}/{extracted_dir}/{normalized_name}
NormalizedLocation(name) ==
    [abs |-> FALSE,
     comps |-> <<ROOT, DIR>> \o normpath(replace_backslash(name)).comps]

\* C32: accepted entries land at the normalized name.  The entry the loop has
\* just handled, when accepted, has been written, and a file is stored at
\* {content_root}/{extracted_dir}/{normalized_name}.
EntryAtNormalizedPath ==
    (fs.last.name # <<>> /\ Accepted(fs.last.name))
        => /\ fs.last.outcome = "written"
           /\ \E f \in fs.files : f.loc = NormalizedLocation(fs.last.name)

-----------------------------------------------------------------------------
(* Same-path replacement of an H5P package                                 *)

\* C33: same-path replacement.  When a save has replaced the H5P package by
\* another upload and the extraction directory has kept its name, the files
\* under the directory are exactly the entries of the new archive: no file
\* of the old extraction is left and no file of the new one is missing.
SamePathReplacementExact ==
    [][LET old == Cur(packages)["h5p"]
           new == Cur(packages')["h5p"]
       IN (/\ packages'.last = "save" /\ packages'.ops # packages.ops
           /\ old.exists /\ new.exists
           /\ old.path # "" /\ new.path = old.path
           /\ new.extracted # old.extracted)
            => \A m \in MemberNames :
                 packages'.files[<<"h5p", new.path, m>>]
                   = IF m \in StoredNames(new.extracted) THEN new.extracted ELSE 0]_vars

-----------------------------------------------------------------------------
(* The cleanup callbacks, one storage call at a time: _cleanup of          *)
(* post_delete_scorm_cleanup, post_delete_h5p_cleanup and                  *)
(* _schedule_replaced_content_cleanup, _delete_storage_dir                  *)

\* The extracted tree: directory D holds f1, f2 and the directory S, which
\* holds g; ZIP is the archive
ZIP == "zip"
TreeFiles(d) == IF d = "D" THEN <<"f1", "f2">> ELSE <<"g">>
TreeDirs(d) == IF d = "D" THEN <<"S">> ELSE <<>>
AllTreeFiles == {"f1", "f2", "g"}

\* The operations that register a cleanup
Triggers == {"delete_scorm", "delete_h5p", "replace_h5p"}

\* try_delete without the except clause
try_delete_uncaught(ok) == IF ok THEN "deleted" ELSE "raised"

\* try: default_storage.delete(...) except Exception: logger...
try_delete(ok) == IF ok THEN "deleted" ELSE "logged"

\* The files of the sequence that are in storage
RECURSIVE Present(_, _)
Present(seq, files) ==
    IF seq = <<>> THEN <<>>
    ELSE IF Head(seq) \in files THEN <<Head(seq)>> \o Present(Tail(seq), files)
         ELSE Present(Tail(seq), files)

\* The callback starts, at the commit or at once: archive is package_file_name
\* (or _old_pkg) being set, dir extracted_path (or _old_ext) being set
CleanupRun(trigger, archive, dir) ==
    /\ packages.cleanup.pc \in {"idle", "done"}
    /\ packages.ops < MaxOps
    /\ packages' = [packages EXCEPT
          !.ops = @ + 1,
          !.cleanup = [NoCleanup EXCEPT
              !.trigger = trigger, !.has_archive = archive, !.has_dir = dir,
              !.files = {ZIP} \cup AllTreeFiles,
              !.pc = IF archive THEN "archive" ELSE IF dir THEN "list" ELSE "done",
              !.cur = IF ~archive /\ dir THEN "D" ELSE ""]]
    /\ UNCHANGED <<db, work, lock, proc, now, calls, faults, lastSet, auto_enroll, fs>>

\* _cleanup: the deletion of the archive
CleanupArchive(ok) ==
    /\ packages.cleanup.pc = "archive"
    /\ LET c == packages.cleanup
           out == try_delete(ok)
       IN packages' = [packages EXCEPT !.cleanup =
             [c EXCEPT !.files = IF out = "deleted" THEN @ \ {ZIP} ELSE @,
                       !.tried = @ \cup {ZIP},
                       !.failed = IF ok THEN @ ELSE @ \cup {ZIP},
                       !.logged = IF out = "logged" THEN @ \cup {ZIP} ELSE @,
                       !.raised = (out = "raised"),
                       !.pc = IF out = "raised" THEN "done"
                              ELSE IF c.has_dir THEN "list" ELSE "done",
                       !.cur = IF out # "raised" /\ c.has_dir THEN "D" ELSE ""]]
    /\ UNCHANGED <<db, work, lock, proc, now, calls, faults, lastSet, auto_enroll, fs>>

\* _delete_storage_dir: default_storage.listdir(path).  FileNotFoundError
\* ends the call for this directory; any other exception leaves
\* _delete_extracted_content and is logged by _cleanup
CleanupList(outcome) ==
    /\ packages.cleanup.pc = "list"
    /\ LET c == packages.cleanup
       IN packages' = [packages EXCEPT !.cleanup =
             CASE outcome = "ok" ->
                    [c EXCEPT !.listed = @ \cup {c.cur},
                              !.todo = Present(TreeFiles(c.cur), c.files),
                              !.dirs = TreeDirs(c.cur),
                              !.pc = "files"]
               [] outcome = "missing" ->
                    [c EXCEPT !.listed = @ \cup {c.cur}, !.missing = @ \cup {c.cur},
                              !.pc = "done"]
               [] OTHER ->
                    [c EXCEPT !.listed = @ \cup {c.cur}, !.failed = @ \cup {c.cur},
                              !.logged = @ \cup {c.cur}, !.pc = "done"]]
    /\ UNCHANGED <<db, work, lock, proc, now, calls, faults, lastSet, auto_enroll, fs>>

\* _delete_storage_dir: one turn of the loop over the files, then the loop
\* over the directories
CleanupFile(ok) ==
    /\ packages.cleanup.pc = "files"
    /\ LET c == packages.cleanup
       IN packages' = [packages EXCEPT !.cleanup =
             IF c.todo # <<>>
             THEN LET f == Head(c.todo)
                      out == try_delete(ok)
                  IN [c EXCEPT !.files = IF out = "deleted" THEN @ \ {f} ELSE @,
                               !.tried = @ \cup {f},
                               !.failed = IF ok THEN @ ELSE @ \cup {f},
                               !.logged = IF out = "logged" THEN @ \cup {f} ELSE @,
                               !.raised = (out = "raised"),
                               !.todo = Tail(@),
                               !.pc = IF out = "raised" THEN "done" ELSE @]
             ELSE IF c.dirs # <<>>
                  THEN [c EXCEPT !.cur = Head(c.dirs), !.dirs = <<>>, !.pc = "list"]
                  ELSE [c EXCEPT !.pc = "done"]]
    /\ ok \/ packages.cleanup.todo # <<>>
    /\ UNCHANGED <<db, work, lock, proc, now, calls, faults, lastSet, auto_enroll, fs>>

InitCleanup ==
    /\ db = EmptyDb
    /\ work = EmptyDb
    /\ lock = 0
    /\ proc = [p \in Procs |-> IdleProc]
    /\ now = 1
    /\ calls = 0
    /\ faults = 0
    /\ lastSet = [a \in AttemptIds |-> [k \in Keys |-> <<>>]]
    /\ auto_enroll = FALSE
    /\ fs = NoExtraction
    /\ packages = NoPackages

NextCleanup ==
    \/ \E t \in Triggers, archive \in BOOLEAN, dir \in BOOLEAN : CleanupRun(t, archive, dir)
    \/ \E ok \in BOOLEAN : CleanupArchive(ok)
    \/ \E outcome \in {"ok", "missing", "error"} : CleanupList(outcome)
    \/ \E ok \in BOOLEAN : CleanupFile(ok)

SpecCleanup == InitCleanup /\ [][NextCleanup]_vars

\* C34: cleanup is best-effort and contained.  No exception leaves the
\* callback; every failed storage call is in the log; when the callback has
\* ended, a package with an extracted tree has had the tree listed, whether
\* or not the archive could be deleted; and when every listing succeeded the
\* deletion of every file of the tree has been attempted, whichever of them
\* failed.
CleanupContained ==
    LET c == packages.cleanup
    IN /\ ~c.raised
       /\ c.failed \subseteq c.logged
       /\ (c.pc = "done" /\ c.has_dir) => "D" \in c.listed
       /\ (c.pc = "done" /\ c.listed = {"D", "S"} /\ c.failed \cap {"D", "S"} = {}
             /\ c.missing = {})
            => AllTreeFiles \subseteq c.tried

\* The archive and f1 could not be deleted; the callback has ended with both
\* failures logged, f2 and g deleted
CleanupContainedReached ==
    LET c == packages.cleanup
    IN /\ c.pc = "done" /\ ~c.raised
       /\ c.failed = {ZIP, "f1"} /\ c.logged = {ZIP, "f1"}
       /\ c.files = {ZIP, "f1"}
       /\ c.tried = {ZIP} \cup AllTreeFiles

-----------------------------------------------------------------------------
(* RTE calls of every method, by the owner of the attempt and by another   *)
(* user                                                                     *)

\* The methods with a handler
RteMethods ==
    {"Initialize", "Terminate", "GetValue", "SetValue", "Commit",
     "GetErrorString", "GetLastError", "GetDiagnostic"}

\* The requests <<HTTP method, body, method name, number of parameters>>:
\* every method with its parameters, and requests refused before dispatch
OwnerRequests ==
    {<<"POST", "object", m, 2>> : m \in RteMethods}
    \cup {<<"GET", "object", "Initialize", 0>>, <<"POST", "not_json", "Initialize", 0>>,
          <<"POST", "object", "Unknown", 0>>}

NextOwner ==
    \/ \E p \in Procs, u \in Users, r \in OwnerRequests,
          k \in {K_LOCATION, K_RAW, K_OTHER} :
         ApiRequest(p, u, 1, r[1], r[2], r[3], r[4], k, "page5")
    \/ \E p \in Procs : GetValue(p)
    \/ \E p \in Procs : SetValueEnter(p)
    \/ \E p \in Procs : Save(p)
    \/ \E p \in Procs : UocGet(p)
    \/ \E p \in Procs : UocWrite(p)
    \/ \E p \in Procs : Commit(p)
    \/ \E p \in Procs : Terminate(p)

SpecOwner == InitApi /\ [][NextOwner]_vars

\* C35: an RTE call on another user's attempt.  Whatever its method and its
\* shape, a request whose attempt does not belong to the caller is answered
\* not-found at once and the step changes nothing in the store.
WrongUserNotFound ==
    [][\A p \in Procs :
         (/\ proc'[p] # proc[p]
          /\ proc'[p].http # ""
          /\ db.attempts[proc'[p].aid].user # proc'[p].user)
            => /\ proc'[p].pc = "done"
               /\ proc'[p].code = "404"
               /\ db' = db]_vars

\* u2 has sent a SetValue to the attempt of u1 and has been answered 404,
\* while u1's own SetValue has been stored
WrongUserNotFoundReached ==
    /\ proc[1].user = "u2" /\ proc[1].method = "SetValue" /\ proc[1].code = "404"
    /\ proc[2].user = "u1" /\ proc[2].method = "SetValue" /\ proc[2].pc = "done"
    /\ proc[2].reply = "true"

-----------------------------------------------------------------------------
(* Promoted fields and the key/value store                                 *)

\* The field of the attempt a promoted key is copied to
PromotedField(att, key) ==
    CASE key = K_STATUS -> att.completion_status
      [] key = K_LOCATION -> att.location
      [] key = K_SUSPEND -> att.suspend_data

\* C36: promoted fields agree with the data points.  When every RTE call
\* has completed, the completion_status, location and suspend_data of each
\* attempt equal the value of the data point stored for
\* cmi.core.lesson_status, cmi.core.lesson_location and cmi.suspend_data,
\* where there is one.
PromotedFieldsConsistent ==
    Quiet =>
        \A aid \in 1..Len(db.attempts), key \in {K_STATUS, K_LOCATION, K_SUSPEND} :
            db.data[aid][key] # <<>>
                => PromotedField(db.attempts[aid], key) = db.data[aid][key][1]

-----------------------------------------------------------------------------
(* Concurrent requests on one H5P attempt: xAPI ingests and content user   *)
(* data                                                                     *)

NextAttemptRace ==
    \/ \E p \in Procs, a \in {"a1", "a2"} : H5PStart(p, "u1", a)
    \/ \E p \in Procs, v \in {XAPI_COMPLETED, XAPI_SCORED}, sc \in {"absent", "85"} :
         H5PStatement(p, v, "absent", sc)
    \/ \E p \in Procs : H5PUpdate(p)
    \/ \E p \in Procs : HEnrolled(p)
    \/ \E p \in Procs : HLesson(p)
    \/ \E p \in Procs : HLessonCreate(p)
    \/ \E p \in Procs : HCourse(p)
    \/ \E p \in Procs : HCourseUpdate(p)
    \/ \E p \in Procs, raw \in {"0", "s1"} :
         UserDataRequest(p, "u1", "a1", "POST", "state", "absent", raw)
    \/ \E p \in Procs : UserDataAttempt(p)
    \/ \E p \in Procs : UserDataWrite(p)
    \/ \E p \in Procs : UserDataSave(p)

SpecAttemptRace == InitH5P /\ [][NextAttemptRace]_vars

\* C37: 'completed' is final for an H5P attempt.  No step of an ingest or of
\* a content-user-data request changes the completion_status of an attempt
\* that is 'completed', also when two requests on the same attempt overlap.
H5PCompletedStays ==
    [][\A u \in Users, a \in Activities :
          db.h5p[u][a].completion_status = "completed"
              => db'.h5p[u][a].completion_status = "completed"]_vars

\* ---------------------------------------------------------------------------
\* The RTE keeps no session: no handler looks at earlier calls

\* The methods whose handlers only build a reply
ReadOnlyMethods ==
    {"Initialize", "Commit", "GetValue", "GetLastError", "GetErrorString",
     "GetDiagnostic"}

\* The step ends a call of slot p
CallEnds(p) ==
    /\ proc'[p] # proc[p]
    /\ proc'[p].pc \in {"done", "raised"}

\* The call of slot p is a two-parameter POST of the owner of the attempt
OwnerCall(p) ==
    /\ proc'[p].http = "POST"
    /\ proc'[p].body = "object"
    /\ proc'[p].nparams = 2
    /\ attempt_found(db, proc'[p].aid, proc'[p].user)

\* C38: the handlers of Initialize, Commit, GetValue, GetLastError,
\* GetErrorString and GetDiagnostic leave the store as it is, and a SetValue
\* or a GetValue of the owner is answered with success whatever calls were
\* made before it: SetValue with "true", GetValue with the stored value, with
\* or without an Initialize before, and after a Terminate.
SessionFree ==
    [][\A p \in Procs :
          /\ (proc'[p] # proc[p] /\ proc'[p].method \in ReadOnlyMethods
                /\ proc'[p].http # "")
                => db' = db
          /\ (CallEnds(p) /\ OwnerCall(p) /\ proc'[p].method = "SetValue")
                => /\ proc'[p].pc = "done"
                   /\ proc'[p].reply = "true"
                   /\ db'.data[proc'[p].aid][proc'[p].key] = <<proc'[p].value>>
          /\ (CallEnds(p) /\ OwnerCall(p) /\ proc'[p].method = "GetValue")
                => /\ proc'[p].pc = "done"
                   /\ proc'[p].code \notin {"201", "404"}
                   /\ proc'[p].reply =
                        get_scorm_value(db, proc'[p].aid, proc'[p].mem,
                                        proc'[p].key)]_vars

\* A SetValue of the owner was answered "true" although it arrived after a
\* Terminate had been answered and no Initialize was ever sent
SessionFreeReached ==
    \E p, q \in Procs :
        /\ calls = 2
        /\ proc[p].method = "Terminate" /\ proc[p].pc = "done"
        /\ proc[p].reply = "true"
        /\ proc[q].method = "SetValue" /\ proc[q].pc = "done"
        /\ proc[q].prior = {"Terminate"}
        /\ proc[q].reply = "true"
        /\ db.data[proc[q].aid][proc[q].key] = <<"page5">>

-----------------------------------------------------------------------------
(* _delete_extracted_content and _delete_storage_dir over a storage tree    *)

\* The storage: the content base root holds the directories a and b and the
\* file top; a holds f1 and the directory s, which holds g; b holds h; out is
\* a file beside the content base.  A path is the sequence of its segments.
StoredFiles ==
    {<<ROOT, <<"a">>, <<"f1">>>>, <<ROOT, <<"a">>, <<"s">>, <<"g">>>>,
     <<ROOT, <<"b">>, <<"h">>>>, <<ROOT, <<"top">>>>, <<<<"out">>>>}

\* The extracted_path values: every name, and the empty string
ExtractedPaths == Names \cup {<<EMPTY>>}

\* The test of _delete_extracted_content without its ".." case
refuse_extracted_dot_only(n) ==
    \/ ~n.abs /\ n.comps = <<>>
    \/ n.abs \/ Len(n.comps) >= 2

\* The test of _delete_extracted_content on the normalized path: not
\* normalized or normalized in (".", ".."), "/" in normalized,
\* normalized.startswith("/")
refuse_extracted(n) ==
    \/ ~n.abs /\ n.comps \in {<<>>, <<DOTDOT>>}
    \/ n.abs \/ Len(n.comps) >= 2
    \/ n.abs

\* content_base_path.rstrip("/") + "/" + normalized
deletion_prefix(n) == <<ROOT>> \o (IF n.abs THEN <<EMPTY>> ELSE <<>>) \o n.comps

\* The directory a path names in the storage
Directory(path) == normpath(path).comps

\* path is below the directory dir
Below(path, dir) ==
    Len(path) > Len(dir) /\ SubSeq(path, 1, Len(dir)) = dir

\* default_storage.listdir(path): the files and the directories of the
\* directory, as the paths _delete_storage_dir builds from them
listdir_files(store, path) ==
    {path \o <<f[Len(f)]>> : f \in {g \in store : Below(g, Directory(path))
                                                  /\ Len(g) = Len(Directory(path)) + 1}}

listdir_dirs(store, path) ==
    {path \o <<f[Len(Directory(path)) + 1]>> :
        f \in {g \in store : Below(g, Directory(path))
                             /\ Len(g) > Len(Directory(path)) + 1}}

\* _delete_extracted_content(extracted_path, content_base_path) up to the
\* call of _delete_storage_dir
DeleteExtractedContent(path) ==
    /\ packages.deletion.pc \in {"idle", "done"}
    /\ packages.ops < MaxOps
    /\ LET n == normpath(path)
           d == packages.deletion
       IN packages' = [packages EXCEPT
             !.ops = @ + 1,
             !.deletion = [NoDeletion EXCEPT
                 !.extracted_path = path,
                 !.store = d.store,
                 !.warned = refuse_extracted(n),
                 !.at = IF refuse_extracted(n) THEN <<>> ELSE deletion_prefix(n),
                 !.pc = IF refuse_extracted(n) THEN "done" ELSE "list"]]
    /\ UNCHANGED <<db, work, lock, proc, now, calls, faults, lastSet, auto_enroll, fs>>

\* _delete_storage_dir(path): the listing; FileNotFoundError for a directory
\* that is not there ends the call for this directory
DeleteList ==
    /\ packages.deletion.pc = "list"
    /\ LET d == packages.deletion
           files == listdir_files(d.store, d.at)
           dirs == listdir_dirs(d.store, d.at)
       IN packages' = [packages EXCEPT !.deletion =
             [d EXCEPT !.listings = @ \cup {d.at},
                       !.queue = files,
                       !.pending = @ \cup dirs,
                       !.pc = "files"]]
    /\ UNCHANGED <<db, work, lock, proc, now, calls, faults, lastSet, auto_enroll, fs>>

\* _delete_storage_dir: default_storage.delete(file_path) in its try
DeleteFile(ok) ==
    /\ packages.deletion.pc = "files"
    /\ packages.deletion.queue # {}
    /\ \E f \in packages.deletion.queue :
         packages' = [packages EXCEPT !.deletion =
             [@ EXCEPT !.deletes = @ \cup {f},
                       !.queue = @ \ {f},
                       !.store = IF try_delete(ok) = "deleted"
                                 THEN {g \in @ : g # Directory(f)} ELSE @]]
    /\ UNCHANGED <<db, work, lock, proc, now, calls, faults, lastSet, auto_enroll, fs>>

\* _delete_storage_dir: the loop over the directories, or the return
DeleteDescend ==
    /\ packages.deletion.pc = "files"
    /\ packages.deletion.queue = {}
    /\ LET d == packages.deletion
       IN IF d.pending = {}
          THEN packages' = [packages EXCEPT !.deletion.pc = "done"]
          ELSE \E dir \in d.pending :
                 packages' = [packages EXCEPT !.deletion =
                     [d EXCEPT !.at = dir, !.pending = @ \ {dir}, !.pc = "list"]]
    /\ UNCHANGED <<db, work, lock, proc, now, calls, faults, lastSet, auto_enroll, fs>>

InitDeletion ==
    /\ db = EmptyDb
    /\ work = EmptyDb
    /\ lock = 0
    /\ proc = [p \in Procs |-> IdleProc]
    /\ now = 1
    /\ calls = 0
    /\ faults = 0
    /\ lastSet = [a \in AttemptIds |-> [k \in Keys |-> <<>>]]
    /\ auto_enroll = FALSE
    /\ fs = NoExtraction
    /\ packages = [NoPackages EXCEPT !.deletion.store = StoredFiles]

NextDeletion ==
    \/ \E path \in ExtractedPaths : DeleteExtractedContent(path)
    \/ DeleteList
    \/ \E ok \in BOOLEAN : DeleteFile(ok)
    \/ DeleteDescend

SpecDeletion == InitDeletion /\ [][NextDeletion]_vars

\* The extracted_path is written with a "/"
ContainsSlash(path) == Len(path) >= 2

\* The normalized extracted_path is the empty string, ".", "..", absolute or
\* nested
NotPlainNormalized(path) ==
    LET n == normpath(path)
    IN n.abs \/ n.comps \in {<<>>, <<DOTDOT>>} \/ Len(n.comps) >= 2

\* Every delete of the call is of a file below content_base/name, name being
\* the normalized extracted_path
DeletesBelowPrefix ==
    LET d == packages.deletion
    IN \A f \in d.deletes :
          Below(Directory(f), <<ROOT>> \o normpath(d.extracted_path).comps)

\* The original statement of C39: a path that is empty, ".", "..", absolute,
\* written with a "/", or normalizes to one of those is never listed and has
\* nothing deleted.
DeletionOnlyForPlainName ==
    LET d == packages.deletion
    IN /\ (d.pc # "idle"
             /\ (ContainsSlash(d.extracted_path) \/ NotPlainNormalized(d.extracted_path)))
            => d.listings = {} /\ d.deletes = {}
       /\ DeletesBelowPrefix

\* C39: the extracted-tree deletion helper touches storage only for an
\* extracted_path whose normalized form is a single plain directory name.
\* For a path that normalizes to ".", "..", an absolute path or a nested path
\* (the empty string normalizes to ".") it lists nothing and deletes nothing;
\* otherwise every file it deletes lies under content_base/name/, where name
\* is the normalized path.
DeletionOnlyForNormalizedPlainName ==
    LET d == packages.deletion
    IN /\ (d.pc # "idle" /\ NotPlainNormalized(d.extracted_path))
            => d.listings = {} /\ d.deletes = {} /\ d.pc = "done" /\ d.warned
       /\ DeletesBelowPrefix

\* The call for "./a" has ended: the two files of a are deleted and nothing
\* else is
DeletionReached ==
    LET d == packages.deletion
    IN /\ d.pc = "done"
       /\ d.extracted_path = <<DOT, <<"a">>>>
       /\ d.deletes = {<<ROOT, <<"a">>, <<"f1">>>>, <<ROOT, <<"a">>, <<"s">>, <<"g">>>>}
       /\ d.store = {<<ROOT, <<"b">>, <<"h">>>>, <<ROOT, <<"top">>>>, <<<<"out">>>>}

====
